---- MODULE Spec2Model ----
(***************************************************************************)
(* Verification model of the Risk battle-probability engine                *)
(* (risk/outcomes.py, risk/utils.py), its probability transforms, the      *)
(* minimum-troop search (risk/min_troops.py) and the fortification         *)
(* optimizer (risk/fortify.py).                                            *)
(*                                                                         *)
(* Probabilities.  The Python code works on floats built from the          *)
(* fractions count / n of the dice tables.  The model keeps them exact:    *)
(* every dice fraction used here has a denominator dividing 6^5 = 7776,    *)
(* so a probability is a finite radix-7776 expansion                       *)
(*     p = p[1] + p[2]/7776 + p[3]/7776^2 + ...                            *)
(* held as a sequence of digits (p[1] is the integer part).  Sums,         *)
(* products and comparisons below are exact on that representation.        *)
(***************************************************************************)
EXTENDS Integers, Sequences, FiniteSets, TLC

VARIABLES
    cfg,      \* calc_battle_probs: the arguments (a, d, a_sides, d_sides, stop)
    pc,       \* calc_battle_probs: position of the caller (main of outcomes.py)
    dist,     \* battle_probs: the returned dict, as (key, prob) pairs in insertion order
    memo,     \* the lru_cache of recur_helper when calc_battle_probs returned
    win,      \* win_probs returned by calc_win_probs
    cum,      \* (atk, dfn) returned by calc_cum_probs
    mt,       \* find_min_troops: its arguments, locals and position
    ft,       \* fortify: its arguments, locals and position
    bc,       \* BattleConfig construction: the arguments and the object built
    ls,       \* calc_loss_probs: its arguments, locals and position
    wk,       \* one path of the battle: recur_helper's descent or simulate_one's loop
    cl,       \* successive calls of calc_battle_probs in one process
    mo,       \* the win probability in binary64 for growing attack forces
    rq        \* api.calc_probs: the request, the loop over names and the response

vars == <<cfg, pc, dist, memo, win, cum, mt, ft, bc, ls, wk, cl, mo, rq>>

-----------------------------------------------------------------------------
(* Bounds of the model *)

MaxAttack == 4
MaxDefense == 2
MaxTerr == 2
MaxStop == 2
\* find_min_troops: largest troop count the oracle is tabulated for, number of
\* probability levels (probabilities are k / ProbDen), largest hi_start
MaxTroops == 16
ProbDen == 3
MaxHiStart == 8
\* fortify: largest attack force of a scenario, most troops to allocate
MaxFortAttack == 3
MaxDTroops == 2

-----------------------------------------------------------------------------
(* Exact probabilities: radix-7776 expansions *)

\* common denominator of the literal table loss_probs_6_6 (6^5)
Radix == 7776

\* a local assigned once and read several times: F applied to the value of v
With(v, F(_)) == CHOOSE r \in {F(x) : x \in {v}} : TRUE

Max(x, y) == IF x >= y THEN x ELSE y
Min(x, y) == IF x <= y THEN x ELSE y

PZero == <<0>>
POne == <<1>>

\* digit i of p, zero beyond its length
PDigit(p, i) == IF i <= Len(p) THEN p[i] ELSE 0

RECURSIVE PNorm(_)
\* drop trailing zero digits (the integer part always stays)
PNorm(p) ==
    IF Len(p) > 1 /\ p[Len(p)] = 0 THEN PNorm(SubSeq(p, 1, Len(p) - 1)) ELSE p

RECURSIVE PCarry(_, _)
\* propagate carries (or borrows) from the last digit up to the integer part
PCarry(s, c) ==
    IF Len(s) = 1 THEN <<s[1] + c>>
    ELSE LET v == s[Len(s)] + c
         IN Append(PCarry(SubSeq(s, 1, Len(s) - 1), v \div Radix), v % Radix)

\* p + q   (float addition `+=` of the code, kept exact)
PAdd(p, q) ==
    LET n == Max(Len(p), Len(q))
    IN PNorm(PCarry([i \in 1..n |-> PDigit(p, i) + PDigit(q, i)], 0))

\* p - q   (the integer part of the result carries the sign)
PSub(p, q) ==
    LET n == Max(Len(p), Len(q))
    IN PNorm(PCarry([i \in 1..n |-> PDigit(p, i) - PDigit(q, i)], 0))

RECURSIVE PConv(_, _, _, _)
\* sum of p[i] * q[r + 1 - i] for i in lo..min(r, Len(p)): one column of the product
PConv(p, q, r, lo) ==
    IF lo > Len(p) \/ lo > r THEN 0
    ELSE p[lo] * PDigit(q, r + 1 - lo) + PConv(p, q, r, lo + 1)

\* p * q   (operator.mul of fortify.calc_any_win_prob)
PMul(p, q) ==
    LET n == Len(p) + Len(q) - 1
    IN PNorm(PCarry([r \in 1..n |-> PConv(p, q, r, Max(1, r + 1 - Len(q)))], 0))

PLeq(p, q) == PSub(q, p)[1] >= 0
PLess(p, q) == ~PLeq(q, p)

\* the fraction n / d of the source as a probability (d divides 7776)
PFrac(n, d) == PNorm(PCarry(<<0, n * (Radix \div d)>>, 0))

-----------------------------------------------------------------------------
(* Python dicts: sequences of <<key, value>> pairs in insertion order *)

DictKeys(dct) == [i \in 1..Len(dct) |-> dct[i][1]]
DictValues(dct) == [i \in 1..Len(dct) |-> dct[i][2]]
DictHas(dct, k) == \E i \in 1..Len(dct) : dct[i][1] = k
DictIndex(dct, k) == CHOOSE i \in 1..Len(dct) : dct[i][1] = k
DictGet(dct, k) == dct[DictIndex(dct, k)][2]

\* defaultdict(int): dct[k] += p
DictAddTo(dct, k, p) ==
    IF DictHas(dct, k)
    THEN [dct EXCEPT ![DictIndex(dct, k)] = <<k, PAdd(dct[DictIndex(dct, k)][2], p)>>]
    ELSE Append(dct, <<k, PAdd(PZero, p)>>)

RECURSIVE SeqSum(_)
SeqSum(s) == IF s = <<>> THEN 0 ELSE s[Len(s)] + SeqSum(SubSeq(s, 1, Len(s) - 1))

\* mutant: the rolls are paired in the order thrown
SortedDescNoSort(s) == s

RECURSIVE SortedDesc(_)
\* sorted(vals, reverse=True) of a sequence of integers
SortedDesc(s) ==
    IF s = <<>> THEN <<>>
    ELSE LET m == CHOOSE i \in 1..Len(s) : \A j \in 1..Len(s) : s[i] >= s[j]
         IN <<s[m]>> \o SortedDesc(SubSeq(s, 1, m - 1) \o SubSeq(s, m + 1, Len(s)))

-----------------------------------------------------------------------------
(* Dice-loss tables: calc_loss_probs *)

\* the keys (# attack dice, # defense dice): product(range(1, 4), range(1, 3))
LossKeys == {<<ar, dr>> : ar \in 1..3, dr \in 1..2}

\* the literal table: per loss key, the items (a_loss, d_loss) -> probability
loss_probs_6_6 ==
    [k \in LossKeys |->
       CASE k = <<3, 2>> -> << <<<<0, 2>>, PFrac(2890, 7776)>>,
                               <<<<2, 0>>, PFrac(2275, 7776)>>,
                               <<<<1, 1>>, PFrac(2611, 7776)>> >>
         [] k = <<3, 1>> -> << <<<<0, 1>>, PFrac(855, 1296)>>,
                               <<<<1, 0>>, PFrac(441, 1296)>> >>
         [] k = <<2, 2>> -> << <<<<0, 2>>, PFrac(295, 1296)>>,
                               <<<<2, 0>>, PFrac(581, 1296)>>,
                               <<<<1, 1>>, PFrac(420, 1296)>> >>
         [] k = <<2, 1>> -> << <<<<0, 1>>, PFrac(125, 216)>>,
                               <<<<1, 0>>, PFrac(91, 216)>> >>
         [] k = <<1, 2>> -> << <<<<0, 1>>, PFrac(55, 216)>>,
                               <<<<1, 0>>, PFrac(161, 216)>> >>
         [] k = <<1, 1>> -> << <<<<0, 1>>, PFrac(15, 36)>>,
                               <<<<1, 0>>, PFrac(21, 36)>> >>]

\* all roll tuples of one pairing: [a: attack values, d: defense values]
Combos(a_sides, d_sides, a_rolls, d_rolls) ==
    {[a |-> av, d |-> dv] : av \in [1..a_rolls -> 1..a_sides],
                            dv \in [1..d_rolls -> 1..d_sides]}

RECURSIVE ComboRank(_, _)
\* position of a roll tuple in itertools.product order (last die fastest)
ComboRank(vals, sides) ==
    IF vals = <<>> THEN 0
    ELSE ComboRank(SubSeq(vals, 1, Len(vals) - 1), SubSeq(sides, 1, Len(sides) - 1))
             * sides[Len(sides)] + (vals[Len(vals)] - 1)

\* mutant: ties go to the attacker
ALossesTiesToAttack(combo) ==
    LET a_vals == SortedDesc(combo.a)
        d_vals == SortedDesc(combo.d)
        m == Min(Len(a_vals), Len(d_vals))
    IN Cardinality({i \in 1..m : a_vals[i] < d_vals[i]})

\* attack losses of one roll: the zipped sorted pairs with a <= d
ALosses(combo) ==
    LET a_vals == SortedDesc(combo.a)
        d_vals == SortedDesc(combo.d)
        m == Min(Len(a_vals), Len(d_vals))
    IN Cardinality({i \in 1..m : a_vals[i] <= d_vals[i]})

RECURSIVE LossItems(_, _, _, _, _)
\* the items of loss_probs_rolls in order of first insertion
LossItems(combos, a_sides, d_sides, total_losses, done) ==
    LET left == {c \in combos : ALosses(c) \notin done}
    IN IF left = {} THEN <<>>
       ELSE LET rank(c) == ComboRank(c.a \o c.d,
                                [i \in 1..(Len(c.a) + Len(c.d)) |->
                                    IF i <= Len(c.a) THEN a_sides ELSE d_sides])
                first == CHOOSE c \in left : \A o \in left : rank(c) <= rank(o)
                al == ALosses(first)
                cnt == Cardinality({c \in combos : ALosses(c) = al})
            IN << <<<<al, total_losses - al>>, PFrac(cnt, Cardinality(combos))>> >>
                 \o LossItems(combos, a_sides, d_sides, total_losses, done \cup {al})

calc_loss_probs(a_sides, d_sides) ==
    IF a_sides = 6 /\ d_sides = 6 THEN loss_probs_6_6
    ELSE [k \in LossKeys |->
            LossItems(Combos(a_sides, d_sides, k[1], k[2]), a_sides, d_sides,
                      Min(k[1], k[2]), {})]

\* the dice the model draws from, as (a_sides, d_sides) per territory
DiceTypes == {<<6, 6>>, <<2, 3>>, <<1, 2>>}

\* lru_cache of calc_loss_probs: each table is computed once and shared
LossCache == [s \in DiceTypes |-> calc_loss_probs(s[1], s[2])]

-----------------------------------------------------------------------------
(* Argument normalisation and validation: utils.fix_risk_args *)

\* An int-or-list argument is [scalar |-> isinstance(val, int), val |-> its values]

\* broadcast_arg: ok is FALSE when `assert len(val) == n` fails
broadcast_arg(arg, n) ==
    LET val == IF arg.scalar THEN [i \in 1..n |-> arg.val[1]] ELSE arg.val
    IN [ok |-> Len(val) = n, val |-> val]

\* fix_risk_args: ok is FALSE when one of the assertions fails (AssertionError)
fix_risk_args(a, d, a_sides, d_sides, stop) ==
    LET n == IF d.scalar THEN 1 ELSE Len(d.val)
        d_list == broadcast_arg(d, n)
        a_sides_list == broadcast_arg(a_sides, n)
        d_sides_list == broadcast_arg(d_sides, n)
    IN [ok |-> /\ d_list.ok /\ a_sides_list.ok /\ d_sides_list.ok
               /\ a > 1
               /\ \A i \in 1..n : d_list.val[i] > 0
               /\ \A i \in 1..n : a_sides_list.val[i] > 0
               /\ \A i \in 1..n : d_sides_list.val[i] > 0
               /\ stop > 0,
        d_list |-> d_list.val,
        a_sides_list |-> a_sides_list.val,
        d_sides_list |-> d_sides_list.val]

-----------------------------------------------------------------------------
(* The outcome-distribution engine: calc_battle_probs *)

\* mutant: the defense test off by one (`d <= 1`)
AbsorbingOffByOne(stop, a, d) == a <= stop \/ d <= 1

\* `if a <= stop or d == 0`
Absorbing(stop, a, d) == a <= stop \/ d = 0

\* mutant: the attack never moves on to the next territory
NextStateNoAdvance(d_list, stop, t, a, d, a_loss, d_loss) ==
    <<t, a - a_loss, d - d_loss>>

\* mutant: the attack moves on only if it keeps more than stop troops after
\* leaving one behind
NextStateAdvanceNeedsSpare(d_list, stop, t, a, d, a_loss, d_loss) ==
    IF d - d_loss = 0 /\ a - a_loss - 1 > stop /\ t < Len(d_list) - 1
    THEN <<t + 1, a - a_loss - 1, d_list[t + 2]>>
    ELSE <<t, a - a_loss, d - d_loss>>

\* mutant: the next territory is entered with the defense of the conquered one
NextStateSameDefense(d_list, stop, t, a, d, a_loss, d_loss) ==
    IF d - d_loss = 0 /\ a - a_loss > stop /\ t < Len(d_list) - 1
    THEN <<t + 1, a - a_loss - 1, d_list[t + 1]>>
    ELSE <<t, a - a_loss, d - d_loss>>

\* mutant: the attack moves on with all its troops
NextStateKeepsTroop(d_list, stop, t, a, d, a_loss, d_loss) ==
    IF d - d_loss = 0 /\ a - a_loss > stop /\ t < Len(d_list) - 1
    THEN <<t + 1, a - a_loss, d_list[t + 2]>>
    ELSE <<t, a - a_loss, d - d_loss>>

\* the state recur_helper recurses into after the roll (a_loss, d_loss);
\* t is the 0-based territory index of the code, d_list is 1-based here
NextState(d_list, stop, t, a, d, a_loss, d_loss) ==
    LET a2 == a - a_loss
        d2 == d - d_loss
    IN IF d2 = 0 /\ a2 > stop /\ t < Len(d_list) - 1
       THEN <<t + 1, a2 - 1, d_list[t + 2]>>
       ELSE <<t, a2, d2>>

\* {tup: p * p2 for tup, p in new.items()}
ScaleDict(dct, p2) == [i \in 1..Len(dct) |-> <<dct[i][1], PMul(dct[i][2], p2)>>]

RECURSIVE MergeIntoOverwrite(_, _)
\* mutant: `combined[key] = prob` instead of `combined[key] += prob`
MergeIntoOverwrite(combined, dct) ==
    IF dct = <<>> THEN combined
    ELSE MergeIntoOverwrite(
             IF DictHas(combined, dct[1][1])
             THEN [combined EXCEPT ![DictIndex(combined, dct[1][1])] = dct[1]]
             ELSE Append(combined, dct[1]),
             Tail(dct))

RECURSIVE MergeInto(_, _)
\* the inner loop of combine_dict_probs for one dict
MergeInto(combined, dct) ==
    IF dct = <<>> THEN combined
    ELSE MergeInto(DictAddTo(combined, dct[1][1], dct[1][2]), Tail(dct))

RECURSIVE combine_dict_probs(_)
combine_dict_probs(dict_list) ==
    IF dict_list = <<>> THEN <<>>
    ELSE MergeInto(combine_dict_probs(SubSeq(dict_list, 1, Len(dict_list) - 1)),
                   dict_list[Len(dict_list)])

RECURSIVE recur_helper(_, _, _, _, _)
RECURSIVE RecurItems(_, _, _, _, _, _, _)

\* the loop over loss_probs.items(): returns the cache after the recursive calls
\* and probs_list
RecurItems(f, stop, cache, s, items, i, probs_list) ==
    IF i > Len(items) THEN [cache |-> cache, probs_list |-> probs_list]
    ELSE With(NextState(f.d_list, stop, s[1], s[2], s[3],
                        items[i][1][1], items[i][1][2]),
              LAMBDA nxt :
                With(recur_helper(f, stop, cache, nxt[1], <<nxt[2], nxt[3]>>),
                     LAMBDA m2 :
                       With(Append(probs_list, ScaleDict(m2[nxt], items[i][2])),
                            LAMBDA new_list :
                              RecurItems(f, stop, m2, s, items, i + 1, new_list))))

\* recur_helper under its lru_cache: cache maps the states already computed to
\* their dicts; the result is the cache extended with (t, a, d)
recur_helper(f, stop, cache, t, ad) ==
    LET a == ad[1]
        d == ad[2]
        s == <<t, a, d>>
    IN IF s \in DOMAIN cache THEN cache
       ELSE IF Absorbing(stop, a, d) THEN cache @@ (s :> << <<s, POne>> >>)
       ELSE LET loss_key == <<Min(3, a - 1), Min(2, d)>>
                loss_probs ==
                    LossCache[<<f.a_sides_list[t + 1], f.d_sides_list[t + 1]>>][loss_key]
            IN With(RecurItems(f, stop, cache, s, loss_probs, 1, <<>>),
                    LAMBDA r : r.cache @@ (s :> combine_dict_probs(r.probs_list)))

EmptyMemo == [s \in {} |-> <<>>]

\* calc_battle_probs(a, d, a_sides, d_sides, stop): ok is FALSE when fix_args
\* raised; otherwise dist is the returned dict and memo the cache of
\* recur_helper when the call returns
calc_battle_probs(a, d, a_sides, d_sides, stop) ==
    With(fix_risk_args(a, d, a_sides, d_sides, stop),
         LAMBDA f :
           IF ~f.ok THEN [ok |-> FALSE, dist |-> <<>>, memo |-> EmptyMemo]
           ELSE With(recur_helper(f, stop, EmptyMemo, 0, <<a, f.d_list[1]>>),
                     LAMBDA m : [ok |-> TRUE, dist |-> m[<<0, a, f.d_list[1]>>],
                                 memo |-> m]))

-----------------------------------------------------------------------------
(* Probability transforms: calc_win_probs, calc_cum_probs *)

\* mutant: `acc = x` instead of `acc += x`
cumsumNoAcc(ps) == ps

RECURSIVE cumsum(_)
\* utils.cumsum: running sums
cumsum(ps) ==
    IF ps = <<>> THEN <<>>
    ELSE LET front == cumsum(SubSeq(ps, 1, Len(ps) - 1))
         IN Append(front, PAdd(IF front = <<>> THEN PZero ELSE front[Len(front)],
                               ps[Len(ps)]))

\* tuple comparison (t, a, d) > (t2, a2, d2) of Python
KeyGreater(x, y) ==
    \/ x[1] > y[1]
    \/ (x[1] = y[1] /\ x[2] > y[2])
    \/ (x[1] = y[1] /\ x[2] = y[2] /\ x[3] > y[3])

\* sorted(battle_probs.items(), reverse=True)
SortedItemsDesc(dct) ==
    LET n == Len(dct)
        rank(i) == Cardinality({j \in 1..n : KeyGreater(dct[j][1], dct[i][1])}) + 1
    IN [r \in 1..n |-> dct[CHOOSE i \in 1..n : rank(i) = r]]

RECURSIVE TerrProbsNoShift(_, _)
\* mutant: the `if d == 0: t += 1` step left out
TerrProbsNoShift(items, terr_probs) ==
    IF items = <<>> THEN terr_probs
    ELSE TerrProbsNoShift(Tail(items),
                          DictAddTo(terr_probs, items[1][1][1], items[1][2]))

RECURSIVE TerrProbs(_, _)
\* the loop of calc_win_probs filling terr_probs
TerrProbs(items, terr_probs) ==
    IF items = <<>> THEN terr_probs
    ELSE LET key == items[1][1]
             t == IF key[3] = 0 THEN key[1] + 1 ELSE key[1]
         IN TerrProbs(Tail(items), DictAddTo(terr_probs, t, items[1][2]))

\* mutant: the `[::-1]` left out
NoReverse(s) == s

\* `[::-1]`
Reverse(s) == [i \in 1..Len(s) |-> s[Len(s) + 1 - i]]

\* calc_win_probs(battle_probs, num_terr): ok is FALSE when the assertion
\* num_terr >= len(win_probs) fails
calc_win_probs(battle_probs, num_terr) ==
    LET terr_probs == TerrProbs(SortedItemsDesc(battle_probs), <<>>)
        cs == cumsum(DictValues(terr_probs))
        win_probs == Reverse(SubSeq(cs, 1, Len(cs) - 1))
    IN [ok |-> num_terr >= Len(win_probs),
        win |-> win_probs \o [i \in 1..(num_terr - Len(win_probs)) |-> PZero]]

\* calc_remaining_troops(t, a, d, d_list) -> (a_rem, d_rem)
calc_remaining_troops(t, a, d, d_list) ==
    <<a + t, d + SeqSum(SubSeq(d_list, t + 2, Len(d_list)))>>

RECURSIVE RemProbs(_, _, _, _)
\* the loop of one_player filling dct
RemProbs(items, d_list, index, dct) ==
    IF items = <<>> THEN dct
    ELSE LET key == items[1][1]
             rems == calc_remaining_troops(key[1], key[2], key[3], d_list)
             k == <<key[1], rems[index + 1], <<key[2], key[3]>>[index + 1]>>
         IN RemProbs(Tail(items), d_list, index, DictAddTo(dct, k, items[1][2]))

\* mutant: the `sorted` left out
SortedOnRemainingNoSort(dct) == dct

\* sorted(dct.items(), key=lambda x: -x[0][1]): stable, descending on remaining
SortedOnRemaining(dct) ==
    LET n == Len(dct)
        before(j, i) == \/ dct[j][1][2] > dct[i][1][2]
                        \/ (dct[j][1][2] = dct[i][1][2] /\ j < i)
        rank(i) == Cardinality({j \in 1..n : before(j, i)}) + 1
    IN [r \in 1..n |-> dct[CHOOSE i \in 1..n : rank(i) = r]]

\* one_player(index): index is 0 for attack, 1 for defense
one_player(battle_probs, d_list, index) ==
    LET lst == SortedOnRemaining(RemProbs(battle_probs, d_list, index, <<>>))
        csum == cumsum(DictValues(lst))
    IN [i \in 1..Len(lst) |-> <<lst[i][1], csum[i]>>]

\* calc_cum_probs(battle_probs, d_list) -> (atk, dfn)
calc_cum_probs(battle_probs, d_list) ==
    [atk |-> one_player(battle_probs, d_list, 0),
     dfn |-> one_player(battle_probs, d_list, 1)]

-----------------------------------------------------------------------------
(* The caller of the engine: outcomes.main with --all *)

AsList(v) == [scalar |-> FALSE, val |-> v]
AsInt(v) == [scalar |-> TRUE, val |-> <<v>>]

\* the valid configurations the model draws from
Configs ==
    {[a |-> a, d |-> AsList(d),
      a_sides |-> AsList([i \in 1..Len(dice) |-> dice[i][1]]),
      d_sides |-> AsList([i \in 1..Len(dice) |-> dice[i][2]]),
      stop |-> stop] :
        a \in 2..MaxAttack, stop \in 1..MaxStop,
        d \in UNION {[1..n -> 1..MaxDefense] : n \in 1..MaxTerr},
        dice \in UNION {[1..n -> DiceTypes] : n \in 1..MaxTerr}}

\* the fixture `params` of the tests: a = 5, d = [3, 2], six-sided dice, stop = 1
TestParams ==
    [a |-> 5, d |-> AsList(<<3, 2>>), a_sides |-> AsList(<<6, 6>>),
     d_sides |-> AsList(<<6, 6>>), stop |-> 1]

\* the other operations are not running
Idle == [pc |-> "idle"]

Init ==
    /\ cfg \in {c \in Configs : Len(c.d.val) = Len(c.a_sides.val)} \cup {TestParams}
    /\ pc = "start"
    /\ dist = <<>>
    /\ memo = EmptyMemo
    /\ win = <<>>
    /\ cum = [atk |-> <<>>, dfn |-> <<>>]
    /\ mt = Idle /\ ft = Idle /\ bc = Idle
    /\ ls = Idle /\ wk = Idle /\ cl = Idle /\ mo = Idle /\ rq = Idle

\* battle_probs = calc_battle_probs(args.a, args.d, args.asides, args.dsides, args.stop)
CalcBattleProbs ==
    /\ pc = "start"
    /\ LET r == calc_battle_probs(cfg.a, cfg.d, cfg.a_sides, cfg.d_sides, cfg.stop)
       IN /\ pc' = IF r.ok THEN "dist" ELSE "error"
          /\ dist' = r.dist
          /\ memo' = r.memo
    /\ UNCHANGED <<cfg, win, cum, mt, ft, bc, ls, wk, cl, mo, rq>>

\* win_probs = calc_win_probs(battle_probs, len(d_list))
CalcWinProbs ==
    /\ pc = "dist"
    /\ LET r == calc_win_probs(dist, Len(cfg.d.val))
       IN /\ pc' = IF r.ok THEN "win" ELSE "error"
          /\ win' = r.win
    /\ UNCHANGED <<cfg, dist, memo, cum, mt, ft, bc, ls, wk, cl, mo, rq>>

\* cum_probs = calc_cum_probs(battle_probs, d_list)
CalcCumProbs ==
    /\ pc = "win"
    /\ cum' = calc_cum_probs(dist, cfg.d.val)
    /\ pc' = "done"
    /\ UNCHANGED <<cfg, dist, memo, win, mt, ft, bc, ls, wk, cl, mo, rq>>

Next == CalcBattleProbs \/ CalcWinProbs \/ CalcCumProbs

Spec == Init /\ [][Next]_vars

\* the engine is not running (the other specifications)
EngineIdle ==
    /\ cfg = Idle /\ pc = "idle" /\ dist = <<>> /\ memo = EmptyMemo
    /\ win = <<>> /\ cum = [atk |-> <<>>, dfn |-> <<>>]

engineVars == <<cfg, pc, dist, memo, win, cum>>

-----------------------------------------------------------------------------
(* Minimum-troop search: find_min_troops *)

\* The oracle calc_prob(a) = battle.calc_probs(**battle_args).win[-1] is a
\* black box here: any non-decreasing table of probability levels k / ProbDen
\* over the troop counts 2..MaxTroops, given by the first troop count that
\* reaches each level.
Oracles ==
    {[a \in 2..MaxTroops |-> Cardinality({k \in 1..ProbDen : th[k] <= a})] :
        th \in {t \in [1..ProbDen -> 2..(MaxTroops + 1)] :
                    \A k \in 1..(ProbDen - 1) : t[k] <= t[k + 1]}}

\* calc_prob(a): sets battle_args['a'], then evaluates the engine, whose
\* argument check `assert a > 1` raises for a <= 1
CalcProb(m, a) ==
    IF a > 1
    THEN [m EXCEPT !.battle_a = a, !.p = m.oracle[a], !.evals = Append(@, a)]
    ELSE [m EXCEPT !.battle_a = a, !.evals = Append(@, a), !.pc = "error"]

\* mutant: the assertion on target after the first evaluation
StartStepLateAssert(m) ==
    LET m1 == CalcProb([m EXCEPT !.lo = 1, !.hi = m.hi_start], m.hi_start)
    IN IF m1.pc = "error" \/ ~(0 < m.target /\ m.target < ProbDen)
       THEN [m1 EXCEPT !.pc = "error"]
       ELSE [m1 EXCEPT !.pc = "double"]

\* lines 39-49: the assertion on target, lo, hi = 1, hi_start, p = calc_prob(hi)
StartStep(m) ==
    IF ~(0 < m.target /\ m.target < ProbDen) THEN [m EXCEPT !.pc = "error"]
    ELSE LET m1 == CalcProb([m EXCEPT !.lo = 1, !.hi = m.hi_start], m.hi_start)
         IN IF m1.pc = "error" THEN m1 ELSE [m1 EXCEPT !.pc = "double"]

\* lines 50-54: one iteration of `while p < target`
DoubleStep(m) ==
    LET m1 == CalcProb([m EXCEPT !.lo = m.hi + 1, !.hi = m.hi * 2], m.hi * 2)
    IN m1

\* lines 56-57: the doubling loop is left, mid = -1
EndDoubleStep(m) == [m EXCEPT !.mid = -1, !.pc = "search"]

\* lines 58-67: one iteration of `while lo <= hi`
SearchStep(m) ==
    LET mid == (m.lo + m.hi) \div 2
        m1 == CalcProb([m EXCEPT !.mid = mid], mid)
    IN IF m1.pc = "error" THEN m1
       ELSE IF m1.p < m.target THEN [m1 EXCEPT !.lo = mid + 1]
       ELSE IF m1.p > m.target THEN [m1 EXCEPT !.hi = mid - 1]
       ELSE [m1 EXCEPT !.pc = "fix"]

\* the fixup without `p = calc_prob(mid)`
FixStepNoRecompute(m) ==
    IF m.p < m.target
    THEN [m EXCEPT !.mid = m.mid + 1, !.pc = "done"]
    ELSE [m EXCEPT !.pc = "done"]

\* lines 69-75: increment and recompute when p < target, then return (mid, p)
FixStep(m) ==
    IF m.p < m.target
    THEN LET m1 == CalcProb([m EXCEPT !.mid = m.mid + 1], m.mid + 1)
         IN IF m1.pc = "error" THEN m1 ELSE [m1 EXCEPT !.pc = "done"]
    ELSE [m EXCEPT !.pc = "done"]

MTInit ==
    /\ EngineIdle /\ ft = Idle /\ bc = Idle
    /\ ls = Idle /\ wk = Idle /\ cl = Idle /\ mo = Idle /\ rq = Idle
    /\ mt \in {[pc |-> "start", target |-> target, hi_start |-> hi_start,
                 oracle |-> oracle, battle_a |-> 0, lo |-> 0, hi |-> 0, mid |-> 0,
                 p |-> 0, evals |-> <<>>] :
                   target \in (-1)..(ProbDen + 1), hi_start \in 2..MaxHiStart,
                   oracle \in Oracles}

MTStart ==
    /\ mt.pc = "start"
    /\ mt' = StartStep(mt)
    /\ UNCHANGED <<engineVars, ft, bc, ls, wk, cl, mo, rq>>

\* the model follows the doubling while the oracle is tabulated
MTDouble ==
    /\ mt.pc = "double"
    /\ mt.p < mt.target
    /\ mt.hi * 2 <= MaxTroops
    /\ mt' = DoubleStep(mt)
    /\ UNCHANGED <<engineVars, ft, bc, ls, wk, cl, mo, rq>>

MTEndDouble ==
    /\ mt.pc = "double"
    /\ ~(mt.p < mt.target)
    /\ mt' = EndDoubleStep(mt)
    /\ UNCHANGED <<engineVars, ft, bc, ls, wk, cl, mo, rq>>

MTSearch ==
    /\ mt.pc = "search"
    /\ mt.lo <= mt.hi
    /\ mt' = SearchStep(mt)
    /\ UNCHANGED <<engineVars, ft, bc, ls, wk, cl, mo, rq>>

MTEndSearch ==
    /\ mt.pc = "search"
    /\ ~(mt.lo <= mt.hi)
    /\ mt' = [mt EXCEPT !.pc = "fix"]
    /\ UNCHANGED <<engineVars, ft, bc, ls, wk, cl, mo, rq>>

MTFix ==
    /\ mt.pc = "fix"
    /\ mt' = FixStep(mt)
    /\ UNCHANGED <<engineVars, ft, bc, ls, wk, cl, mo, rq>>

MTNext == MTStart \/ MTDouble \/ MTEndDouble \/ MTSearch \/ MTEndSearch \/ MTFix

SpecMinTroops == MTInit /\ [][MTNext]_vars

\* a call that has started keeps running
SpecMinTroopsFair == SpecMinTroops /\ WF_vars(MTNext)

-----------------------------------------------------------------------------
(* Fortification: fortify *)

\* battle.calc_probs(**args): the distribution and the win probabilities of one
\* scenario
calc_probs(args) ==
    With(calc_battle_probs(args.a, args.d, args.a_sides, args.d_sides, args.stop),
         LAMBDA b :
           With(calc_win_probs(b.dist, Len(args.d.val)),
                LAMBDA w : [ok |-> b.ok /\ w.ok, dist |-> b.dist, win |-> w.win]))

\* battle.calc_probs(**args).win[-1]
WinLast(args) == With(calc_probs(args).win, LAMBDA w : w[Len(w)])

RECURSIVE MaxProb(_)
\* max(p_list)
MaxProb(ps) ==
    IF Len(ps) = 1 THEN ps[1]
    ELSE With(MaxProb(Tail(ps)), LAMBDA r : IF PLess(ps[1], r) THEN r ELSE ps[1])

RECURSIVE ProdOfComplements(_)
\* reduce(mul, [(1 - p) for p in prob_list])
ProdOfComplements(ps) ==
    IF Len(ps) = 1 THEN PSub(POne, ps[1])
    ELSE PMul(ProdOfComplements(SubSeq(ps, 1, Len(ps) - 1)), PSub(POne, ps[Len(ps)]))

\* calc_any_win_prob(prob_list)
calc_any_win_prob(prob_list) == PNorm(PSub(POne, ProdOfComplements(prob_list)))

\* the metric of a method over the list of win probabilities
Metric(method, p_list) ==
    IF method = "any" THEN calc_any_win_prob(p_list) ELSE PNorm(MaxProb(p_list))

\* new_args['d'][terr_idx] += 1 (indices from 1 here)
AddDefender(args, terr_idx) == [args EXCEPT !.d.val[terr_idx] = @ + 1]

\* calc_prob(args, arg_idx, terr_idx, p_list) of fortify
calc_prob(method, args, arg_idx, terr_idx, p_list) ==
    With(WinLast(AddDefender(args, terr_idx)),
         LAMBDA p : With([p_list EXCEPT ![arg_idx] = p],
                         LAMBDA p_list_new : Metric(method, p_list_new)))

RECURSIVE CandidatesFrom(_, _)
\* the order of the two nested loops: configurations, then their territories
CandidatesFrom(arg_list, i) ==
    IF i > Len(arg_list) THEN <<>>
    ELSE [t \in 1..Len(arg_list[i].d.val) |-> <<i, t>>] \o CandidatesFrom(arg_list, i + 1)

Candidates(arg_list) == CandidatesFrom(arg_list, 1)

\* mutant: `if p <= best_p`
BetterOrEqual(p, best_p) == PLeq(p, best_p)

\* `if p < best_p`
Better(p, best_p) == PLess(p, best_p)

\* best_arg_idx = None, best_terr_idx = None, best_p = 1
NoBest == [arg_idx |-> 0, terr_idx |-> 0, p |-> POne]

RECURSIVE Scan(_, _, _, _, _)
\* lines 79-85: the scan of all candidates, keeping the best so far
Scan(method, arg_list, p_list, cands, best) ==
    IF cands = <<>> THEN best
    ELSE With(calc_prob(method, arg_list[cands[1][1]], cands[1][1], cands[1][2], p_list),
              LAMBDA p :
                With(IF Better(p, best.p)
                     THEN [arg_idx |-> cands[1][1], terr_idx |-> cands[1][2], p |-> p]
                     ELSE best,
                     LAMBDA new_best :
                       With(Tail(cands),
                            LAMBDA rest : Scan(method, arg_list, p_list, rest, new_best))))

\* mutant: the win probability stored at the territory's index
CommitProbAtTerr(p_list, best, p) == [p_list EXCEPT ![best.terr_idx] = p]

\* p_list[best_arg_idx] = battle.calc_probs(**arg_list[best_arg_idx]).win[-1]
CommitProb(p_list, best, p) == [p_list EXCEPT ![best.arg_idx] = p]

\* arg_list[best_arg_idx]['d'][best_terr_idx] += 1: the list object changes,
\* and with it the `d` of every configuration that refers to the same object
AddDefenderAt(arg_list, d_obj, best) ==
    [i \in 1..Len(arg_list) |->
        IF d_obj[i] = d_obj[best.arg_idx]
        THEN AddDefender(arg_list[i], best.terr_idx)
        ELSE arg_list[i]]

\* lines 76-88: one iteration of `for _ in range(d_troops)`; indexing with
\* best_arg_idx = None raises TypeError; the increment changes the object
\* `arg_list` refers to
PlaceStep(f) ==
    With(Scan(f.method, f.arg_list, f.p_list, Candidates(f.arg_list), NoBest),
         LAMBDA best :
           IF best.arg_idx = 0 THEN [f EXCEPT !.best = best, !.pc = "error"]
           ELSE With(AddDefenderAt(f.arg_list, f.d_obj, best),
                     LAMBDA al :
                       With(WinLast(al[best.arg_idx]),
                            LAMBDA p :
                              [f EXCEPT !.best = best,
                                        !.arg_list = al,
                                        !.caller_arg_list =
                                            IF f.arg_ref = "caller" THEN al ELSE @,
                                        !.p_list = CommitProb(f.p_list, best, p),
                                        !.placed = @ + 1])))

\* get_allocations(arg_list_old, arg_list)
get_allocations(arg_list_old, arg_list) ==
    [i \in 1..Min(Len(arg_list_old), Len(arg_list)) |->
        [t \in 1..Min(Len(arg_list_old[i].d.val), Len(arg_list[i].d.val)) |->
            arg_list[i].d.val[t] - arg_list_old[i].d.val[t]]]

\* mutant: `arg_list` keeps referring to the list of the caller
FortifyStartNoCopy(f) ==
    IF f.a_troops > 0 THEN [f EXCEPT !.pc = "error"]
    ELSE IF f.method \notin {"weakest", "any"} THEN [f EXCEPT !.pc = "error"]
    ELSE [f EXCEPT !.arg_list_old = f.caller_arg_list,
                   !.arg_list = f.caller_arg_list,
                   !.p_list = [i \in 1..Len(f.caller_arg_list) |->
                                  WinLast(f.caller_arg_list[i])],
                   !.pc = "loop"]

\* lines 47-72: the checks of the arguments, the two deep copies, p_list;
\* after `arg_list = deepcopy(arg_list)` the local name refers to the copy
FortifyStart(f) ==
    IF f.a_troops > 0 THEN [f EXCEPT !.pc = "error"]
    ELSE IF f.method \notin {"weakest", "any"} THEN [f EXCEPT !.pc = "error"]
    ELSE [f EXCEPT !.arg_list_old = f.caller_arg_list,
                   !.arg_list = f.caller_arg_list,
                   !.arg_ref = "copy",
                   !.p_list = [i \in 1..Len(f.caller_arg_list) |->
                                  WinLast(f.caller_arg_list[i])],
                   !.pc = "loop"]

\* lines 90-96: the Fortified tuple returned
FortifyReturn(f) ==
    [f EXCEPT !.pc = "done",
              !.result = [args_new |-> f.arg_list,
                          args_old |-> f.arg_list_old,
                          allocation |-> get_allocations(f.arg_list_old, f.arg_list),
                          p_max |-> MaxProb(f.p_list),
                          p_any |-> calc_any_win_prob(f.p_list),
                          method |-> f.method]]

\* defended territories and dice of the scenarios the model draws from
FortifyDefenses == {<<1>>, <<2>>, <<1, 1>>, <<2, 1>>}
FortifyDice == {<<6, 6>>, <<2, 3>>}
Methods == {"weakest", "any", "max"}

\* argument dictionaries: d is a list, the dice are scalars
FortifyArgs ==
    {[a |-> a, d |-> AsList(d), a_sides |-> AsInt(dice[1]),
      d_sides |-> AsInt(dice[2]), stop |-> 1] :
        a \in 2..MaxFortAttack, d \in FortifyDefenses, dice \in FortifyDice}

\* the identities of the list objects the `d` entries of the dictionaries
\* refer to: two dictionaries may hold the same list, and both deep copies
\* keep that sharing
DObjects == {<<1>>, <<1, 2>>, <<1, 1>>}

FTInit ==
    /\ EngineIdle /\ mt = Idle /\ bc = Idle
    /\ ls = Idle /\ wk = Idle /\ cl = Idle /\ mo = Idle /\ rq = Idle
    /\ ft \in {[pc |-> "start", caller_arg_list |-> al, d_obj |-> d_obj,
                 arg_ref |-> "caller", d_troops |-> d_troops,
                 a_troops |-> a_troops, method |-> method, arg_list |-> <<>>,
                 arg_list_old |-> <<>>, p_list |-> <<>>, placed |-> 0,
                 best |-> NoBest, result |-> <<>>] :
                   al \in UNION {[1..n -> FortifyArgs] : n \in 1..2},
                   d_obj \in DObjects,
                   d_troops \in 0..MaxDTroops, a_troops \in 0..1,
                   method \in Methods}
          /\ Len(ft.d_obj) = Len(ft.caller_arg_list)
          /\ \A i, j \in 1..Len(ft.d_obj) :
                ft.d_obj[i] = ft.d_obj[j] =>
                    ft.caller_arg_list[i].d = ft.caller_arg_list[j].d

FTStart ==
    /\ ft.pc = "start"
    /\ ft' = FortifyStart(ft)
    /\ UNCHANGED <<engineVars, mt, bc, ls, wk, cl, mo, rq>>

FTPlace ==
    /\ ft.pc = "loop"
    /\ ft.placed < ft.d_troops
    /\ ft' = PlaceStep(ft)
    /\ UNCHANGED <<engineVars, mt, bc, ls, wk, cl, mo, rq>>

FTReturn ==
    /\ ft.pc = "loop"
    /\ ~(ft.placed < ft.d_troops)
    /\ ft' = FortifyReturn(ft)
    /\ UNCHANGED <<engineVars, mt, bc, ls, wk, cl, mo, rq>>

FTNext == FTStart \/ FTPlace \/ FTReturn

SpecFortify == FTInit /\ [][FTNext]_vars

-----------------------------------------------------------------------------
(* Building a configuration: BattleConfig and fix_risk_args on raw arguments *)

\* broadcast(x, n) of the API module
broadcast(x, n) ==
    LET val == IF x.scalar THEN [i \in 1..n |-> x.val[1]] ELSE x.val
    IN [ok |-> Len(val) = n, val |-> val]

\* BattleConfig.check_args
check_args(a, d_list, a_sides_list, d_sides_list, stop) ==
    /\ a > 1
    /\ \A i \in 1..Len(d_list) : d_list[i] > 0
    /\ \A i \in 1..Len(a_sides_list) : a_sides_list[i] > 0
    /\ \A i \in 1..Len(d_sides_list) : d_sides_list[i] > 0
    /\ stop > 0

\* BattleConfig.__init__: ok is FALSE when an assertion of broadcast or of
\* check_args fails
BattleConfig(a, d, a_sides, d_sides, stop) ==
    LET num_terr == IF d.scalar THEN 1 ELSE Len(d.val)
        d_list == broadcast(d, num_terr)
        a_sides_list == broadcast(a_sides, num_terr)
        d_sides_list == broadcast(d_sides, num_terr)
    IN [ok |-> /\ d_list.ok /\ a_sides_list.ok /\ d_sides_list.ok
               /\ check_args(a, d_list.val, a_sides_list.val, d_sides_list.val, stop),
        num_terr |-> num_terr,
        d_list |-> d_list.val,
        a_sides_list |-> a_sides_list.val,
        d_sides_list |-> d_sides_list.val]

\* raw values a caller may pass, valid or not
RawAttack == 0..3
RawStop == 0..2
RawTroops == (-1)..2
RawSides == {0, 6}

\* an int, or a list of up to two ints
RawArg(S) ==
    {AsInt(v) : v \in S} \cup {AsList(l) : l \in UNION {[1..n -> S] : n \in 0..2}}

NotBuilt == [ok |-> FALSE, num_terr |-> 0, d_list |-> <<>>, a_sides_list |-> <<>>,
             d_sides_list |-> <<>>]

BCInit ==
    /\ EngineIdle /\ mt = Idle /\ ft = Idle
    /\ ls = Idle /\ wk = Idle /\ cl = Idle /\ mo = Idle /\ rq = Idle
    /\ bc \in {[pc |-> "start", a |-> a, d |-> d, a_sides |-> a_sides,
                 d_sides |-> d_sides, stop |-> stop, built |-> NotBuilt,
                 lookups |-> 0] :
                   a \in RawAttack, d \in RawArg(RawTroops),
                   a_sides \in RawArg(RawSides), d_sides \in RawArg(RawSides),
                   stop \in RawStop}

\* cfg = BattleConfig(a, d, a_sides, d_sides, stop)
BCConstruct ==
    /\ bc.pc = "start"
    /\ LET r == BattleConfig(bc.a, bc.d, bc.a_sides, bc.d_sides, bc.stop)
       IN bc' = [bc EXCEPT !.pc = IF r.ok THEN "accepted" ELSE "error", !.built = r]
    /\ UNCHANGED <<engineVars, mt, ft, ls, wk, cl, mo, rq>>

\* the first statement of calc_battle_probs: the arguments are fixed
BCFixArgs ==
    /\ bc.pc = "start"
    /\ LET r == fix_risk_args(bc.a, bc.d, bc.a_sides, bc.d_sides, bc.stop)
       IN bc' = [bc EXCEPT
                   !.pc = IF r.ok THEN "accepted" ELSE "error",
                   !.built = [ok |-> r.ok,
                              num_terr |-> IF bc.d.scalar THEN 1 ELSE Len(bc.d.val),
                              d_list |-> r.d_list,
                              a_sides_list |-> r.a_sides_list,
                              d_sides_list |-> r.d_sides_list]]
    /\ UNCHANGED <<engineVars, mt, ft, ls, wk, cl, mo, rq>>

\* recur_helper(0, a, d_list[0]): d_list[0] of an empty list raises IndexError;
\* a transient first state looks up its loss table
BCRecurse ==
    /\ bc.pc = "accepted"
    /\ bc' = IF bc.built.d_list = <<>> THEN [bc EXCEPT !.pc = "index_error"]
             ELSE [bc EXCEPT !.pc = "recursing",
                             !.lookups = IF Absorbing(bc.stop, bc.a, bc.built.d_list[1])
                                         THEN @ ELSE @ + 1]
    /\ UNCHANGED <<engineVars, mt, ft, ls, wk, cl, mo, rq>>

BCNext == BCConstruct \/ BCFixArgs \/ BCRecurse

SpecConfig == BCInit /\ [][BCNext]_vars

-----------------------------------------------------------------------------
(* Properties of the engine and its transforms *)

RECURSIVE PSum(_)
\* the exact sum of a sequence of probabilities
PSum(ps) == IF ps = <<>> THEN PZero ELSE PAdd(PSum(SubSeq(ps, 1, Len(ps) - 1)), ps[Len(ps)])

NumTerr == Len(cfg.d.val)
Returned == pc \in {"dist", "win", "done"}
DistKeys == {dist[i][1] : i \in 1..Len(dist)}

\* the transient states of the cache whose children share an outcome key, so
\* that combine_dict_probs summed two entries
MergedAt(s) ==
    /\ ~(s[2] <= cfg.stop \/ s[3] = 0)
    /\ LET items == LossCache[<<cfg.a_sides.val[s[1] + 1],
                                cfg.d_sides.val[s[1] + 1]>>][<<Min(3, s[2] - 1), Min(2, s[3])>>]
           child(i) == NextState(cfg.d.val, cfg.stop, s[1], s[2], s[3],
                                 items[i][1][1], items[i][1][2])
       IN \E i, j \in 1..Len(items) :
            /\ i < j
            /\ \E k \in 1..Len(memo[child(i)]) : DictHas(memo[child(j)], memo[child(i)][k][1])

C2_OutcomesAbsorbing ==
    Returned => \A k \in DistKeys :
                   /\ k[2] <= cfg.stop \/ k[3] = 0
                   /\ 0 <= k[1] /\ k[1] < NumTerr

\* a distribution holding both kinds of absorbing states, reached through a
\* transient state
C2_Witness ==
    /\ pc = "dist"
    /\ \E k \in DistKeys : k[3] = 0 /\ k[2] > cfg.stop
    /\ \E k \in DistKeys : k[3] > 0 /\ k[2] <= cfg.stop
    /\ \E s \in DOMAIN memo : s[2] > cfg.stop /\ s[3] > 0

\* the sum of the probabilities of the outcomes with t > i, or t = i and d = 0
ConquerProb(i) ==
    PSum(DictValues(SelectSeq(dist, LAMBDA it : \/ it[1][1] > i
                                               \/ (it[1][1] = i /\ it[1][3] = 0))))

RECURSIVE RefWinItems(_, _)
\* battle.calc_win_probs, the loop: win_probs[t_before] += p for t_before < t,
\* and win_probs[t] += p when d == 0 (win_probs is indexed by territory here)
RefWinItems(items, win_probs) ==
    IF items = <<>> THEN win_probs
    ELSE LET key == items[1][1]
             hit == {tb \in 0..(key[1] - 1) : TRUE} \cup (IF key[3] = 0 THEN {key[1]} ELSE {})
         IN RefWinItems(Tail(items),
                        [tb \in DOMAIN win_probs \cup hit |->
                            IF tb \in hit
                            THEN PAdd(IF tb \in DOMAIN win_probs THEN win_probs[tb] ELSE PZero,
                                      items[1][2])
                            ELSE win_probs[tb]])

\* battle.calc_win_probs(battle_probs): the touched territories and the list
\* [p for k, p in sorted(win_probs.items())]
battle_calc_win_probs(battle_probs) ==
    LET win_probs == RefWinItems(battle_probs, [tb \in {} |-> PZero])
        keys == DOMAIN win_probs
        nth(r) == CHOOSE k \in keys : Cardinality({j \in keys : j < k}) = r - 1
    IN [r \in 1..Cardinality(keys) |-> win_probs[nth(r)]]

\* C3: entry i of calc_win_probs(dist, N) equals the sum of the probabilities
\* of the outcomes with t > i, or t = i and d = 0, which is what the reference
\* battle.calc_win_probs returns (zero-padded to N); the last entry is the
\* mass of the outcomes with d = 0 on territory N-1.
C3_WinProbsMatchReference ==
    pc \in {"win", "done"} =>
        LET ref == battle_calc_win_probs(dist)
        IN /\ Len(win) = NumTerr
           /\ Len(ref) <= NumTerr
           /\ \A i \in 0..(NumTerr - 1) :
                 /\ win[i + 1] = ConquerProb(i)
                 /\ win[i + 1] = IF i < Len(ref) THEN ref[i + 1] ELSE PZero
           /\ win[NumTerr] =
                 PSum(DictValues(SelectSeq(dist, LAMBDA it : /\ it[1][1] = NumTerr - 1
                                                            /\ it[1][3] = 0)))

\* two territories, both conquered with different non-zero probabilities
C3_Witness ==
    /\ pc = "win"
    /\ NumTerr = 2
    /\ win[2] # PZero
    /\ win[1] # win[2]
    /\ win[1] = ConquerProb(0)

\* territory i holds a state of the recursion: the attack arrives there
TerrReached(i) == \E s \in DOMAIN memo : s[1] = i

-----------------------------------------------------------------------------
(* Properties of find_min_troops *)

\* find_min_troops has returned (mt.mid, mt.p)
MTReturned == mt.pc = "done"

\* the troop counts at which the oracle reaches the target
Reaching == {a \in 2..MaxTroops : mt.oracle[a] >= mt.target}

\* the oracle takes the target's exact value at some troop count
Plateau == \E a \in 2..MaxTroops : mt.oracle[a] = mt.target

\* C5: whenever find_min_troops returns, for every non-decreasing oracle, the
\* returned troop count is the smallest troop count whose probability is at
\* least the target.
C5_ReturnsMinimalTroops ==
    MTReturned =>
        /\ mt.mid \in Reaching
        /\ \A a \in Reaching : mt.mid <= a

\* the minimality that the code does have: when the oracle never takes the
\* target's exact value, the returned troop count is the smallest one
C5_MinimalWithoutPlateau ==
    (MTReturned /\ ~Plateau) =>
        /\ mt.mid \in Reaching
        /\ \A a \in Reaching : mt.mid <= a

\* a return on the equality break with a smaller troop count that also
\* reaches the target
C5_NonMinimalReturn ==
    /\ MTReturned
    /\ mt.p = mt.target
    /\ \E a \in Reaching : a < mt.mid

\* C6: whenever find_min_troops returns (troops, p), p is the oracle's value at
\* troops, computed by the last evaluation, and p >= target, whichever way the
\* search was left: on the equality break, on exhaustion with p >= target, or
\* on exhaustion with p < target followed by the increment.
C6_ReturnedProbAtTroops ==
    MTReturned =>
        /\ mt.p = mt.oracle[mt.mid]
        /\ mt.evals[Len(mt.evals)] = mt.mid
        /\ mt.battle_a = mt.mid
        /\ mt.p >= mt.target

\* a return through the increment: the evaluation before the last one was at
\* troops - 1 and fell short of the target
C6_Witness ==
    /\ MTReturned
    /\ Len(mt.evals) >= 3
    /\ mt.evals[Len(mt.evals) - 1] = mt.mid - 1
    /\ mt.oracle[mt.mid - 1] < mt.target
    /\ mt.lo > mt.hi

\* a return after the search was exhausted with p >= target
C6_ExhaustedAbove ==
    /\ MTReturned
    /\ mt.lo > mt.hi
    /\ mt.p > mt.target
    /\ mt.mid = mt.lo

\* a return on the equality break
C6_EqualityBreak ==
    /\ MTReturned
    /\ mt.lo <= mt.hi
    /\ mt.p = mt.target

-----------------------------------------------------------------------------
(* Properties of fortify *)

\* a step of the greedy loop that committed a placement
Placed == ft.pc = "loop" /\ ft'.pc = "loop" /\ ft'.placed = ft.placed + 1

Tentative(f, c) == calc_prob(f.method, f.arg_list[c[1]], c[1], c[2], f.p_list)

\* C8: at each greedy iteration the committed candidate has the smallest
\* tentative metric of all (configuration, territory) candidates, the first in
\* iteration order among equals, and the metric after the commit equals that
\* tentative metric.
C8_CommitsFirstMinimalCandidate ==
    [][Placed =>
        \E cands \in {Candidates(ft.arg_list)} :
        \E tent \in {[j \in 1..Len(cands) |-> Tentative(ft, cands[j])]} :
        \E k \in 1..Len(cands) :
            /\ ft'.best.arg_idx = cands[k][1] /\ ft'.best.terr_idx = cands[k][2]
            /\ ft'.arg_list[cands[k][1]]
                   = AddDefender(ft.arg_list[cands[k][1]], cands[k][2])
            /\ \A j \in 1..Len(cands) : PLeq(tent[k], tent[j])
            /\ \A j \in 1..(k - 1) : PLess(tent[k], tent[j])
            /\ Metric(ft'.method, ft'.p_list) = tent[k]]_vars

\* a placement decided by the order: the last candidate has the same tentative
\* metric as the committed one
C8_Witness ==
    /\ ft.pc = "loop"
    /\ ft.placed >= 1
    /\ Len(ft.arg_list) = 2
    /\ LET before == [ft.arg_list EXCEPT
                         ![ft.best.arg_idx] =
                             [@ EXCEPT !.d.val[ft.best.terr_idx] = @ - 1]]
           cands == Candidates(before)
           last == cands[Len(cands)]
       IN /\ last # <<ft.best.arg_idx, ft.best.terr_idx>>
          /\ Metric(ft.method,
                    [i \in 1..2 |-> WinLast(IF i = last[1]
                                            THEN AddDefender(before[i], last[2])
                                            ELSE before[i])]) = ft.best.p
          /\ Metric(ft.method, ft.p_list) = ft.best.p

-----------------------------------------------------------------------------
(* Properties of the construction of a configuration *)

\* the number of territories of the raw arguments
RawN == IF bc.d.scalar THEN 1 ELSE Len(bc.d.val)

\* the values a raw argument carries: the int, or the entries of the list
RawValues(x) == {x.val[i] : i \in 1..Len(x.val)}

\* the raw arguments break one of the rules of a configuration
RawInvalid ==
    \/ bc.a <= 1
    \/ \E v \in RawValues(bc.d) : v <= 0
    \/ \E v \in RawValues(bc.a_sides) \cup RawValues(bc.d_sides) : v <= 0
    \/ bc.stop <= 0
    \/ ~bc.a_sides.scalar /\ Len(bc.a_sides.val) # RawN
    \/ ~bc.d_sides.scalar /\ Len(bc.d_sides.val) # RawN

\* the construction has been attempted
Attempted == bc.pc \notin {"idle", "start"}

\* C9: building a configuration fails with a validation error whenever the
\* attack troops are <= 1, a defense-troop entry, a dice-side count or the stop
\* threshold is <= 0, or a list of sides has a length other than N; the failure
\* precedes every loss-table lookup and recursion step; every other
\* configuration is accepted with its three sequences of length N.
C9_ValidationRejectsInvalid ==
    Attempted =>
        /\ RawInvalid => (bc.pc = "error" /\ bc.lookups = 0)
        /\ ~RawInvalid =>
              /\ bc.pc # "error"
              /\ bc.built.ok
              /\ Len(bc.built.d_list) = RawN
              /\ Len(bc.built.a_sides_list) = RawN
              /\ Len(bc.built.d_sides_list) = RawN

\* what the code does guarantee: the same statement for arguments with at
\* least one territory
C9_ValidatedWhenNonEmpty ==
    (Attempted /\ RawN >= 1) =>
        /\ RawInvalid => (bc.pc = "error" /\ bc.lookups = 0)
        /\ ~RawInvalid =>
              /\ bc.pc # "error"
              /\ bc.built.ok
              /\ Len(bc.built.d_list) = RawN
              /\ Len(bc.built.a_sides_list) = RawN
              /\ Len(bc.built.d_sides_list) = RawN

\* a scalar dice-side count of 0 accepted with an empty list of territories
C9_InvalidAccepted ==
    /\ bc.pc = "accepted"
    /\ bc.d = AsList(<<>>)
    /\ bc.a_sides = AsInt(0)
    /\ bc.a > 1 /\ bc.stop > 0

-----------------------------------------------------------------------------
(***************************************************************************)
(* calc_loss_probs, one pairing of the loop at a time                      *)
(***************************************************************************)
\* product(range(1, 4), range(1, 3)), in the order of the loop
Pairings == << <<1, 1>>, <<1, 2>>, <<2, 1>>, <<2, 2>>, <<3, 1>>, <<3, 2>> >>

\* the numbers of sides the model draws from
LossSides == {1, 2, 3, 6}

\* loss_probs_rolls of one iteration of the loop over the pairings
LossProbsRolls(a_sides, d_sides, a_rolls, d_rolls) ==
    LossItems(Combos(a_sides, d_sides, a_rolls, d_rolls), a_sides, d_sides,
              Min(a_rolls, d_rolls), {})

LSInit ==
    /\ EngineIdle /\ mt = Idle /\ ft = Idle /\ bc = Idle
    /\ wk = Idle /\ cl = Idle /\ mo = Idle /\ rq = Idle
    /\ \E a_sides \in LossSides, d_sides \in LossSides :
          ls = [pc |-> "start", a_sides |-> a_sides, d_sides |-> d_sides,
                todo |-> <<>>, loss_probs |-> <<>>]

\* the test of the literal shortcut, then the start of the loop
LSStart ==
    /\ ls.pc = "start"
    /\ ls' = IF ls.a_sides = 6 /\ ls.d_sides = 6
             THEN [ls EXCEPT !.pc = "done",
                             !.loss_probs = [i \in 1..Len(Pairings) |->
                                 <<Pairings[i], loss_probs_6_6[Pairings[i]]>>]]
             ELSE [ls EXCEPT !.pc = "loop", !.todo = Pairings]
    /\ UNCHANGED <<engineVars, mt, ft, bc, wk, cl, mo, rq>>

\* one iteration: all combos of the pairing, their losses, the dict entry
LSPairing ==
    /\ ls.pc = "loop"
    /\ ls.todo # <<>>
    /\ ls' = [ls EXCEPT
                !.todo = Tail(ls.todo),
                !.loss_probs = Append(ls.loss_probs,
                    <<Head(ls.todo),
                      LossProbsRolls(ls.a_sides, ls.d_sides,
                                     Head(ls.todo)[1], Head(ls.todo)[2])>>)]
    /\ UNCHANGED <<engineVars, mt, ft, bc, wk, cl, mo, rq>>

LSReturn ==
    /\ ls.pc = "loop"
    /\ ls.todo = <<>>
    /\ ls' = [ls EXCEPT !.pc = "done"]
    /\ UNCHANGED <<engineVars, mt, ft, bc, wk, cl, mo, rq>>

LSNext == LSStart \/ LSPairing \/ LSReturn

SpecLoss == LSInit /\ [][LSNext]_vars

(***************************************************************************)
(* One path of a battle: the descent of recur_helper through its recursive *)
(* calls, and the loop of simulate_one                                     *)
(***************************************************************************)
\* mutant: the attack rolls a die for each of its troops
LossProbsAtAllTroops(f, t, a, d) ==
    LossCache[<<f.a_sides_list[t + 1], f.d_sides_list[t + 1]>>][<<Min(3, a), Min(2, d)>>]

\* mutant: a roll in which nobody loses a troop is possible
LossProbsAtWithDraw(f, t, a, d) ==
    << <<<<0, 0>>, POne>> >>
        \o LossCache[<<f.a_sides_list[t + 1], f.d_sides_list[t + 1]>>][<<Min(3, a - 1), Min(2, d)>>]

\* `calc_loss_probs(a_sides, d_sides)[loss_key]` of the current territory
LossProbsAt(f, t, a, d) ==
    LossCache[<<f.a_sides_list[t + 1], f.d_sides_list[t + 1]>>][<<Min(3, a - 1), Min(2, d)>>]

\* mutant: the simulator moves on with all its troops
SimIterKeepsTroop(d_list, stop, t, a, d, a_loss, d_loss) ==
    IF d - d_loss = 0 /\ a - a_loss > stop /\ t < Len(d_list) - 1
    THEN <<t + 1, a - a_loss, d_list[t + 2]>>
    ELSE <<t, a - a_loss, d - d_loss>>

\* one iteration of the loop of simulate_one after the roll (a_loss, d_loss):
\* the new values of (t, a, d)
SimIter(d_list, stop, t, a, d, a_loss, d_loss) ==
    LET a1 == a - a_loss
        d1 == d - d_loss
    IN IF d1 = 0 /\ a1 > stop /\ t < Len(d_list) - 1
       THEN <<t + 1, a1 - 1, d_list[t + 2]>>
       ELSE <<t, a1, d1>>

\* the configurations the walks start from
WalkConfigs == {c \in Configs : Len(c.d.val) = Len(c.a_sides.val)} \cup {TestParams}

WKInit ==
    /\ EngineIdle /\ mt = Idle /\ ft = Idle /\ bc = Idle
    /\ ls = Idle /\ cl = Idle /\ mo = Idle /\ rq = Idle
    /\ \E args \in WalkConfigs, mode \in {"engine", "sim"} :
          wk = [pc |-> "start", mode |-> mode, args |-> args,
                f |-> [ok |-> FALSE, d_list |-> <<>>, a_sides_list |-> <<>>,
                       d_sides_list |-> <<>>],
                t |-> 0, a |-> 0, d |-> 0, roll |-> <<>>, path |-> <<>>,
                rolls |-> <<>>]

\* fix_args, then `recur_helper(0, a, d_list[0])` or the head of simulate_one
WKStart ==
    /\ wk.pc = "start"
    /\ LET f == fix_risk_args(wk.args.a, wk.args.d, wk.args.a_sides,
                              wk.args.d_sides, wk.args.stop)
       IN wk' = IF ~f.ok THEN [wk EXCEPT !.pc = "error"]
                ELSE [wk EXCEPT !.pc = "run", !.f = f, !.t = 0, !.a = wk.args.a,
                                !.d = f.d_list[1],
                                !.path = << <<0, wk.args.a, f.d_list[1]>> >>]
    /\ UNCHANGED <<engineVars, mt, ft, bc, ls, cl, mo, rq>>

\* recur_helper in a transient state: the recursive call of one loop iteration
WKRecurse ==
    /\ wk.pc = "run" /\ wk.mode = "engine"
    /\ ~Absorbing(wk.args.stop, wk.a, wk.d)
    /\ \E i \in 1..Len(LossProbsAt(wk.f, wk.t, wk.a, wk.d)) :
          LET roll == LossProbsAt(wk.f, wk.t, wk.a, wk.d)[i][1]
              nxt == NextState(wk.f.d_list, wk.args.stop, wk.t, wk.a, wk.d,
                               roll[1], roll[2])
          IN wk' = [wk EXCEPT !.t = nxt[1], !.a = nxt[2], !.d = nxt[3],
                              !.roll = roll, !.path = Append(wk.path, nxt),
                              !.rolls = Append(wk.rolls, roll)]
    /\ UNCHANGED <<engineVars, mt, ft, bc, ls, cl, mo, rq>>

\* recur_helper in an absorbing state: `return {(t, a, d): 1}`
WKAbsorb ==
    /\ wk.pc = "run" /\ wk.mode = "engine"
    /\ Absorbing(wk.args.stop, wk.a, wk.d)
    /\ wk' = [wk EXCEPT !.pc = "done"]
    /\ UNCHANGED <<engineVars, mt, ft, bc, ls, cl, mo, rq>>

\* one iteration of `while a > stop and d > 0`
WKSimRoll ==
    /\ wk.pc = "run" /\ wk.mode = "sim"
    /\ wk.a > wk.args.stop /\ wk.d > 0
    /\ \E i \in 1..Len(LossProbsAt(wk.f, wk.t, wk.a, wk.d)) :
          LET roll == LossProbsAt(wk.f, wk.t, wk.a, wk.d)[i][1]
              nxt == SimIter(wk.f.d_list, wk.args.stop, wk.t, wk.a, wk.d,
                             roll[1], roll[2])
          IN wk' = [wk EXCEPT !.t = nxt[1], !.a = nxt[2], !.d = nxt[3],
                              !.roll = roll, !.path = Append(wk.path, nxt),
                              !.rolls = Append(wk.rolls, roll)]
    /\ UNCHANGED <<engineVars, mt, ft, bc, ls, cl, mo, rq>>

\* `return t, a, d`
WKSimReturn ==
    /\ wk.pc = "run" /\ wk.mode = "sim"
    /\ ~(wk.a > wk.args.stop /\ wk.d > 0)
    /\ wk' = [wk EXCEPT !.pc = "done"]
    /\ UNCHANGED <<engineVars, mt, ft, bc, ls, cl, mo, rq>>

WKNext == WKStart \/ WKRecurse \/ WKAbsorb \/ WKSimRoll \/ WKSimReturn

SpecWalk == WKInit /\ [][WKNext]_vars

\* the running program keeps taking steps
SpecWalkFair == SpecWalk /\ WF_vars(WKNext)

(***************************************************************************)
(* Successive calls of calc_battle_probs in one process                    *)
(***************************************************************************)
(* The engine as the interpreter computes it, in IEEE 754 binary64.  A     *)
(* value is [m, e] with m a natural number of exactly 53 bits, held as     *)
(* limbs of 14 bits (least significant first), standing for m * 2^e; zero  *)
(* has no limbs.  Every operation rounds to nearest, ties to even.         *)
(***************************************************************************)
LimbBits == 14
LimbBase == 16384
MantissaBits == 53

RECURSIVE Pow2(_)
Pow2(k) == IF k = 0 THEN 1 ELSE 2 * Pow2(k - 1)

RECURSIVE BitLen(_)
BitLen(v) == IF v = 0 THEN 0 ELSE 1 + BitLen(v \div 2)

RECURSIVE BNorm(_)
\* a natural number without leading zero limbs
BNorm(n) ==
    IF n = <<>> THEN <<>>
    ELSE IF n[Len(n)] = 0 THEN BNorm(SubSeq(n, 1, Len(n) - 1)) ELSE n

RECURSIVE BAddC(_, _, _)
BAddC(x, y, c) ==
    IF x = <<>> /\ y = <<>> THEN (IF c = 0 THEN <<>> ELSE <<c>>)
    ELSE LET s == (IF x = <<>> THEN 0 ELSE x[1]) + (IF y = <<>> THEN 0 ELSE y[1]) + c
         IN <<s % LimbBase>>
              \o BAddC(IF x = <<>> THEN <<>> ELSE Tail(x),
                       IF y = <<>> THEN <<>> ELSE Tail(y), s \div LimbBase)

BAdd(x, y) == BAddC(x, y, 0)

RECURSIVE BMulSmallC(_, _, _)
BMulSmallC(x, k, c) ==
    IF x = <<>> THEN (IF c = 0 THEN <<>> ELSE <<c>>)
    ELSE LET s == x[1] * k + c
         IN <<s % LimbBase>> \o BMulSmallC(Tail(x), k, s \div LimbBase)

\* x * k for 0 <= k < LimbBase
BMulSmall(x, k) == BNorm(BMulSmallC(x, k, 0))

\* x * LimbBase^n
BShiftLimbs(x, n) == IF x = <<>> THEN <<>> ELSE [i \in 1..n |-> 0] \o x

RECURSIVE BMul(_, _)
BMul(x, y) ==
    IF x = <<>> \/ y = <<>> THEN <<>>
    ELSE BAdd(BMulSmall(x, y[1]), BShiftLimbs(BMul(x, Tail(y)), 1))

RECURSIVE BDivFrom(_, _, _, _, _)
BDivFrom(n, k, i, rem, acc) ==
    IF i = 0 THEN [q |-> BNorm(acc), r |-> rem]
    ELSE LET cur == rem * LimbBase + n[i]
         IN BDivFrom(n, k, i - 1, cur % k, <<cur \div k>> \o acc)

\* quotient and remainder of n by k, 0 < k <= LimbBase
BDivSmall(n, k) == BDivFrom(n, k, Len(n), 0, <<>>)

BBits(n) == IF n = <<>> THEN 0 ELSE LimbBits * (Len(n) - 1) + BitLen(n[Len(n)])

\* n * 2^s
BShl(n, s) == BMulSmall(BShiftLimbs(n, s \div LimbBits), Pow2(s % LimbBits))

\* floor(n / 2^s)
BShr(n, s) ==
    IF s \div LimbBits >= Len(n) THEN <<>>
    ELSE BDivSmall(SubSeq(n, s \div LimbBits + 1, Len(n)), Pow2(s % LimbBits)).q

BOdd(n) == n # <<>> /\ n[1] % 2 = 1

RECURSIVE BLess(_, _)
BLess(x, y) ==
    IF Len(x) # Len(y) THEN Len(x) < Len(y)
    ELSE IF x = <<>> THEN FALSE
    ELSE IF x[Len(x)] # y[Len(y)] THEN x[Len(x)] < y[Len(y)]
    ELSE BLess(SubSeq(x, 1, Len(x) - 1), SubSeq(y, 1, Len(y) - 1))

FZero == [m |-> <<>>, e |-> 0]

\* the binary64 value nearest to n * 2^e (plus a non-zero rest below the last
\* bit of n when sticky holds), ties to even
FRound(n, e, sticky) ==
    LET len == BBits(n)
    IN IF n = <<>> THEN FZero
       ELSE IF len <= MantissaBits
       THEN [m |-> BShl(n, MantissaBits - len), e |-> e - (MantissaBits - len)]
       ELSE LET s == len - MantissaBits
                q == BShr(n, s)
                h == BShr(n, s - 1)
                rest == sticky \/ BShl(h, s - 1) # n
                up == BOdd(h) /\ (rest \/ BOdd(q))
                q1 == IF up THEN BAdd(q, <<1>>) ELSE q
            IN IF BBits(q1) > MantissaBits
               THEN [m |-> BShr(q1, 1), e |-> e + s + 1]
               ELSE [m |-> q1, e |-> e + s]

\* float(k) for 0 <= k < LimbBase
FInt(k) == FRound(IF k = 0 THEN <<>> ELSE <<k>>, 0, FALSE)

FOne == FInt(1)

\* a / b for integers 0 < a, b < LimbBase
FDivInt(a, b) ==
    LET qr == BDivSmall(BShl(<<a>>, 5 * LimbBits), b)
    IN FRound(qr.q, 0 - 5 * LimbBits, qr.r # 0)

FMul(x, y) ==
    IF x.m = <<>> \/ y.m = <<>> THEN FZero
    ELSE FRound(BMul(x.m, y.m), x.e + y.e, FALSE)

FAdd(x, y) ==
    IF x.m = <<>> THEN y
    ELSE IF y.m = <<>> THEN x
    ELSE LET e == IF x.e < y.e THEN x.e ELSE y.e
         IN FRound(BAdd(BShl(x.m, x.e - e), BShl(y.m, y.e - e)), e, FALSE)

FLess(x, y) ==
    IF y.m = <<>> THEN FALSE
    ELSE IF x.m = <<>> THEN TRUE
    ELSE IF x.e # y.e THEN x.e < y.e
    ELSE BLess(x.m, y.m)

\* x + c + c + ... + c (k times), added one at a time from the left
RECURSIVE FSumFrom(_, _, _)
FSumFrom(x, k, c) ==
    IF k = 0 THEN x
    ELSE IF k = 1 THEN FAdd(x, c)
    ELSE With(FSumFrom(x, k \div 2, c), LAMBDA y : FSumFrom(y, k - k \div 2, c))

\* the literal table in binary64: each entry is one float division
loss_probs_6_6_64 ==
    [k \in LossKeys |->
       CASE k = <<3, 2>> -> << <<<<0, 2>>, FDivInt(2890, 7776)>>,
                               <<<<2, 0>>, FDivInt(2275, 7776)>>,
                               <<<<1, 1>>, FDivInt(2611, 7776)>> >>
         [] k = <<3, 1>> -> << <<<<0, 1>>, FDivInt(855, 1296)>>,
                               <<<<1, 0>>, FDivInt(441, 1296)>> >>
         [] k = <<2, 2>> -> << <<<<0, 2>>, FDivInt(295, 1296)>>,
                               <<<<2, 0>>, FDivInt(581, 1296)>>,
                               <<<<1, 1>>, FDivInt(420, 1296)>> >>
         [] k = <<2, 1>> -> << <<<<0, 1>>, FDivInt(125, 216)>>,
                               <<<<1, 0>>, FDivInt(91, 216)>> >>
         [] k = <<1, 2>> -> << <<<<0, 1>>, FDivInt(55, 216)>>,
                               <<<<1, 0>>, FDivInt(161, 216)>> >>
         [] k = <<1, 1>> -> << <<<<0, 1>>, FDivInt(15, 36)>>,
                               <<<<1, 0>>, FDivInt(21, 36)>> >>]

RECURSIVE IPow(_, _)
IPow(b, k) == IF k = 0 THEN 1 ELSE b * IPow(b, k - 1)

\* the roll tuple at position r of itertools.product (last die fastest)
ComboAt(r, a_sides, d_sides, a_rolls, d_rolls) ==
    [a |-> [i \in 1..a_rolls |->
               ((r \div (IPow(a_sides, a_rolls - i) * IPow(d_sides, d_rolls)))
                   % a_sides) + 1],
     d |-> [i \in 1..d_rolls |->
               ((r \div IPow(d_sides, d_rolls - i)) % d_sides) + 1]]

RECURSIVE FirstNew(_, _, _, _, _, _)
\* the first roll tuple, from position r on, whose key is not in the dict yet
FirstNew(r, a_sides, d_sides, a_rolls, d_rolls, done) ==
    LET c == ComboAt(r, a_sides, d_sides, a_rolls, d_rolls)
    IN IF ALosses(c) \notin done THEN c
       ELSE FirstNew(r + 1, a_sides, d_sides, a_rolls, d_rolls, done)

RECURSIVE LossItems64(_, _, _, _, _)
\* the items of loss_probs_rolls in order of first insertion; the value of a
\* key is 0 with `1 / n` added once per roll tuple of that key
LossItems64(combos, a_sides, d_sides, total_losses, done) ==
    IF \A c \in combos : ALosses(c) \in done THEN <<>>
    ELSE LET one == CHOOSE c \in combos : TRUE
             first == FirstNew(0, a_sides, d_sides, Len(one.a), Len(one.d), done)
             al == ALosses(first)
             cnt == Cardinality({c \in combos : ALosses(c) = al})
         IN << <<<<al, total_losses - al>>,
                 FSumFrom(FZero, cnt, FDivInt(1, Cardinality(combos)))>> >>
              \o LossItems64(combos, a_sides, d_sides, total_losses, done \cup {al})

RECURSIVE LossTable64(_, _, _)
\* the loop over the pairings from the i-th on: loss_probs[(a_rolls, d_rolls)]
\* = loss_probs_rolls
LossTable64(a_sides, d_sides, i) ==
    IF i > Len(Pairings) THEN EmptyMemo
    ELSE (Pairings[i] :> LossItems64(Combos(a_sides, d_sides, Pairings[i][1],
                                            Pairings[i][2]),
                                     a_sides, d_sides,
                                     Min(Pairings[i][1], Pairings[i][2]), {}))
            @@ LossTable64(a_sides, d_sides, i + 1)

\* calc_loss_probs in binary64
calc_loss_probs64(a_sides, d_sides) ==
    IF a_sides = 6 /\ d_sides = 6 THEN loss_probs_6_6_64
    ELSE LossTable64(a_sides, d_sides, 1)

\* the dice of the evaluations in binary64
DiceTypes64 == {<<6, 6>>, <<6, 2>>, <<7, 1>>}

RECURSIVE LossCacheOf64(_)
\* the tables of a set of dice, each computed once
LossCacheOf64(dice) ==
    IF dice = {} THEN EmptyMemo
    ELSE LET s == CHOOSE x \in dice : TRUE
         IN (s :> calc_loss_probs64(s[1], s[2])) @@ LossCacheOf64(dice \ {s})

\* {tup: p * p2 for tup, p in new.items()}
ScaleDict64(dct, p2) == [i \in 1..Len(dct) |-> <<dct[i][1], FMul(dct[i][2], p2)>>]

\* combined[key] += prob on a defaultdict(int)
DictAddTo64(dct, k, p) ==
    IF DictHas(dct, k)
    THEN [dct EXCEPT ![DictIndex(dct, k)] = <<k, FAdd(dct[DictIndex(dct, k)][2], p)>>]
    ELSE Append(dct, <<k, FAdd(FZero, p)>>)

RECURSIVE MergeInto64(_, _)
MergeInto64(combined, dct) ==
    IF dct = <<>> THEN combined
    ELSE MergeInto64(DictAddTo64(combined, dct[1][1], dct[1][2]), Tail(dct))

RECURSIVE combine_dict_probs64(_)
combine_dict_probs64(dict_list) ==
    IF dict_list = <<>> THEN <<>>
    ELSE MergeInto64(combine_dict_probs64(SubSeq(dict_list, 1, Len(dict_list) - 1)),
                     dict_list[Len(dict_list)])

RECURSIVE recur_helper64(_, _, _, _, _, _)
RECURSIVE RecurItems64(_, _, _, _, _, _, _, _)

\* the loop over loss_probs.items() of recur_helper, in binary64
RecurItems64(tables, f, stop, cache, s, items, i, probs_list) ==
    IF i > Len(items) THEN [cache |-> cache, probs_list |-> probs_list]
    ELSE With(NextState(f.d_list, stop, s[1], s[2], s[3],
                        items[i][1][1], items[i][1][2]),
              LAMBDA nxt :
                With(recur_helper64(tables, f, stop, cache, nxt[1], <<nxt[2], nxt[3]>>),
                     LAMBDA m2 :
                       With(Append(probs_list, ScaleDict64(m2[nxt], items[i][2])),
                            LAMBDA new_list :
                              RecurItems64(tables, f, stop, m2, s, items, i + 1,
                                           new_list))))

\* recur_helper under its lru_cache, in binary64; tables is the lru_cache of
\* calc_loss_probs
recur_helper64(tables, f, stop, cache, t, ad) ==
    LET a == ad[1]
        d == ad[2]
        s == <<t, a, d>>
    IN IF s \in DOMAIN cache THEN cache
       ELSE IF Absorbing(stop, a, d) THEN cache @@ (s :> << <<s, FOne>> >>)
       ELSE LET loss_key == <<Min(3, a - 1), Min(2, d)>>
                loss_probs ==
                    tables[<<f.a_sides_list[t + 1], f.d_sides_list[t + 1]>>][loss_key]
            IN With(RecurItems64(tables, f, stop, cache, s, loss_probs, 1, <<>>),
                    LAMBDA r : r.cache @@ (s :> combine_dict_probs64(r.probs_list)))

\* calc_battle_probs in binary64
calc_battle_probs64(tables, a, d, a_sides, d_sides, stop) ==
    With(fix_risk_args(a, d, a_sides, d_sides, stop),
         LAMBDA f :
           IF ~f.ok THEN [ok |-> FALSE, dist |-> <<>>]
           ELSE With(recur_helper64(tables, f, stop, EmptyMemo, 0, <<a, f.d_list[1]>>),
                     LAMBDA m : [ok |-> TRUE, dist |-> m[<<0, a, f.d_list[1]>>]]))

RECURSIVE TerrProbs64(_, _)
\* terr_probs[t] += p over the outcomes sorted in reverse
TerrProbs64(items, terr_probs) ==
    IF items = <<>> THEN terr_probs
    ELSE LET key == items[1][1]
             t == IF key[3] = 0 THEN key[1] + 1 ELSE key[1]
         IN TerrProbs64(Tail(items), DictAddTo64(terr_probs, t, items[1][2]))

RECURSIVE cumsum64(_)
\* utils.cumsum in binary64
cumsum64(ps) ==
    IF ps = <<>> THEN <<>>
    ELSE LET front == cumsum64(SubSeq(ps, 1, Len(ps) - 1))
         IN Append(front, FAdd(IF front = <<>> THEN FZero ELSE front[Len(front)],
                               ps[Len(ps)]))

\* calc_win_probs in binary64
calc_win_probs64(battle_probs, num_terr) ==
    LET terr_probs == TerrProbs64(SortedItemsDesc(battle_probs), <<>>)
        cs == cumsum64(DictValues(terr_probs))
        win_probs == Reverse(SubSeq(cs, 1, Len(cs) - 1))
    IN [ok |-> num_terr >= Len(win_probs),
        win |-> win_probs \o [i \in 1..(num_terr - Len(win_probs)) |-> FZero]]

\* battle.calc_probs(**args).win[-1] in binary64
WinLast64(tables, args) ==
    With(calc_battle_probs64(tables, args.a, args.d, args.a_sides, args.d_sides, args.stop),
         LAMBDA b : With(calc_win_probs64(b.dist, Len(args.d.val)).win,
                         LAMBDA w : w[Len(w)]))


\* the largest attack force evaluated
MaxMonoAttack == 11

\* battle_args of find_min_troops: a configuration without its attack troops
MonoArgs ==
    {[d |-> AsList(d), a_sides |-> AsInt(dice[1]), d_sides |-> AsInt(dice[2]),
      stop |-> stop] :
        d \in {<<1>>, <<2>>, <<1, 1>>}, dice \in DiceTypes64, stop \in 1..2}

\* the lru_cache of calc_loss_probs after the calls a battle makes: a table is
\* computed on the first call with its dice and kept
LossCacheAfter64(tables, battle_args) ==
    LET dice == {<<battle_args.a_sides.val[1], battle_args.d_sides.val[1]>>}
    IN LossCacheOf64(dice \ DOMAIN tables) @@ tables

\* calc_prob(a) of find_min_troops: battle_args['a'] = a, then the last win
\* probability of the engine
calc_prob64(tables, battle_args, a) ==
    WinLast64(tables,
              [a |-> a, d |-> battle_args.d, a_sides |-> battle_args.a_sides,
               d_sides |-> battle_args.d_sides, stop |-> battle_args.stop])

MOInit ==
    /\ EngineIdle /\ mt = Idle /\ ft = Idle /\ bc = Idle
    /\ ls = Idle /\ wk = Idle /\ cl = Idle /\ rq = Idle
    /\ \E args \in MonoArgs :
          mo = [pc |-> "start", battle_args |-> args, a |-> 0, p |-> FZero,
                prev |-> FZero, tables |-> EmptyMemo]

\* the first evaluation, with the smallest valid attack force
MOFirst ==
    /\ mo.pc = "start"
    /\ \E tables \in {LossCacheAfter64(mo.tables, mo.battle_args)} :
         \E p \in {calc_prob64(tables, mo.battle_args, 2)} :
            mo' = [mo EXCEPT !.pc = "run", !.a = 2, !.p = p, !.tables = tables]
    /\ UNCHANGED <<engineVars, mt, ft, bc, ls, wk, cl, rq>>

\* the evaluation with one more attack troop
MOMore ==
    /\ mo.pc = "run"
    /\ mo.a < MaxMonoAttack
    /\ \E p \in {calc_prob64(mo.tables, mo.battle_args, mo.a + 1)} :
          mo' = [mo EXCEPT !.a = @ + 1, !.p = p, !.prev = mo.p]
    /\ UNCHANGED <<engineVars, mt, ft, bc, ls, wk, cl, rq>>

MONext == MOFirst \/ MOMore

SpecMono == MOInit /\ [][MONext]_vars

(***************************************************************************)
\* mutant: one cache of recur_helper for all calls
CallMemoShared(prev) == prev

\* `@lru_cache` on the nested `def recur_helper`: each call of
\* calc_battle_probs defines a new function with an empty cache, whatever the
\* cache prev of the call before holds
CallMemo(prev) == EmptyMemo

\* calc_battle_probs(**args) in a process whose previous call left the cache prev
BattleCall(prev, args) ==
    With(fix_risk_args(args.a, args.d, args.a_sides, args.d_sides, args.stop),
         LAMBDA f :
           IF ~f.ok THEN [ok |-> FALSE, dist |-> <<>>, memo |-> CallMemo(prev)]
           ELSE With(recur_helper(f, args.stop, CallMemo(prev), 0,
                                  <<args.a, f.d_list[1]>>),
                     LAMBDA m : [ok |-> TRUE, dist |-> m[<<0, args.a, f.d_list[1]>>],
                                 memo |-> m]))

\* the dice whose loss tables a call looked up: the lru_cache of
\* calc_loss_probs is the module's, and keeps them for the calls that follow
LossLookups(args, cache) ==
    {<<args.a_sides.val[s[1] + 1], args.d_sides.val[s[1] + 1]>> :
        s \in {x \in DOMAIN cache : ~Absorbing(args.stop, x[2], x[3])}}

\* the configurations of the calls
MaxCallAttack == 3
CallDefenses == {<<1>>, <<2>>, <<1, 1>>, <<2, 1>>}
CallConfigs ==
    {[a |-> a, d |-> AsList(d),
      a_sides |-> AsList([i \in 1..Len(d) |-> dice[i][1]]),
      d_sides |-> AsList([i \in 1..Len(d) |-> dice[i][2]]),
      stop |-> 1] :
        a \in 2..MaxCallAttack, d \in CallDefenses,
        dice \in [1..2 -> DiceTypes]}

CLInit ==
    /\ EngineIdle /\ mt = Idle /\ ft = Idle /\ bc = Idle
    /\ ls = Idle /\ wk = Idle /\ mo = Idle /\ rq = Idle
    /\ \E c1 \in CallConfigs, c2 \in CallConfigs :
          cl = [pc |-> "run", calls |-> <<c1, c2>>, k |-> 1, results |-> <<>>,
                memo |-> EmptyMemo, loss_cached |-> {}]

\* the next call of the sequence
CLCall ==
    /\ cl.pc = "run"
    /\ cl.k <= Len(cl.calls)
    /\ \E r \in {BattleCall(cl.memo, cl.calls[cl.k])} :
          cl' = [cl EXCEPT !.k = @ + 1,
                           !.results = Append(@, r.dist),
                           !.memo = r.memo,
                           !.loss_cached = @ \cup LossLookups(cl.calls[cl.k], r.memo)]
    /\ UNCHANGED <<engineVars, mt, ft, bc, ls, wk, mo, rq>>

\* the process ends
CLExit ==
    /\ cl.pc = "run"
    /\ cl.k > Len(cl.calls)
    /\ cl' = [cl EXCEPT !.pc = "done"]
    /\ UNCHANGED <<engineVars, mt, ft, bc, ls, wk, mo, rq>>

CLNext == CLCall \/ CLExit

SpecCalls == CLInit /\ [][CLNext]_vars

------------------------------------------------------------------------------
(* The HTTP adapter: api.calc_probs *)

\* names = ['a', 'd', 'a_sides', 'd_sides', 'stop']
names == <<"a", "d", "a_sides", "d_sides", "stop">>

\* request.args hold strings; the value of `name` in the query string
ArgValue(name) ==
    CASE name = "a" -> [str |-> TRUE, val |-> 3]
      [] name = "d" -> [str |-> TRUE, val |-> <<1>>]
      [] name = "stop" -> [str |-> TRUE, val |-> 1]
      [] OTHER -> [str |-> TRUE, val |-> 6]

\* the value of `name` in the JSON body
JsonValue(name) ==
    CASE name = "a" -> [str |-> FALSE, val |-> 4]
      [] name = "d" -> [str |-> FALSE, val |-> <<1, 1>>]
      [] name = "stop" -> [str |-> FALSE, val |-> 2]
      [] OTHER -> [str |-> FALSE, val |-> 6]

RECURSIVE ParamDict(_, _, _)
\* the dict of the parameters a request supplies in its query arguments or in
\* its JSON body, from the i-th name on
ParamDict(supplied, in_query, i) ==
    IF i > Len(names) THEN <<>>
    ELSE (IF names[i] \in supplied
          THEN << <<names[i], IF in_query THEN ArgValue(names[i])
                                          ELSE JsonValue(names[i])>> >>
          ELSE <<>>)
            \o ParamDict(supplied, in_query, i + 1)

HttpMethods == {"GET", "POST", "OPTIONS"}

\* the requests: any subset of the names in the query arguments, any in the
\* JSON body; a request without a JSON body has get_json() = None, which is
\* falsy like the empty dict
Requests ==
    {[method |-> m, args |-> ParamDict(sa, TRUE, 1),
      json |-> ParamDict(sj, FALSE, 1)] :
        m \in HttpMethods,
        sa \in SUBSET {names[i] : i \in 1..Len(names)},
        sj \in SUBSET {names[i] : i \in 1..Len(names)}}

\* the message of the else clause of the loop
ErrorMessage == "Something went wrong :-("

\* kwargs[name] = value
DictPut(dct, k, v) ==
    IF DictHas(dct, k) THEN [dct EXCEPT ![DictIndex(dct, k)] = <<k, v>>]
    ELSE Append(dct, <<k, v>>)

\* one iteration of `for name in names`
CollectName(request, kwargs, name) ==
    IF request.args # <<>> /\ DictHas(request.args, name)
    THEN DictPut(kwargs, name, DictGet(request.args, name))
    ELSE IF request.json # <<>> /\ DictHas(request.json, name)
    THEN DictPut(kwargs, name, DictGet(request.json, name))
    ELSE kwargs

APInit ==
    /\ EngineIdle /\ mt = Idle /\ ft = Idle /\ bc = Idle
    /\ ls = Idle /\ wk = Idle /\ cl = Idle /\ mo = Idle
    /\ \E request \in Requests :
          rq = [pc |-> "start", request |-> request, kwargs |-> <<>>, i |-> 0,
                response |-> [kind |-> "none"]]

\* the preflight branch: ('', 204, headers)
APOptions ==
    /\ rq.pc = "start"
    /\ rq.request.method = "OPTIONS"
    /\ rq' = [rq EXCEPT !.pc = "done", !.response = [kind |-> "preflight", body |-> "", status |-> 204]]
    /\ UNCHANGED <<engineVars, mt, ft, bc, ls, wk, cl, mo>>

\* kwargs = dict(); request_json = request.get_json()
APStart ==
    /\ rq.pc = "start"
    /\ rq.request.method # "OPTIONS"
    /\ rq' = [rq EXCEPT !.pc = "loop", !.i = 1]
    /\ UNCHANGED <<engineVars, mt, ft, bc, ls, wk, cl, mo>>

\* the body of the loop for names[i]; the body has no break
APName ==
    /\ rq.pc = "loop"
    /\ rq.i <= Len(names)
    /\ rq' = [rq EXCEPT !.kwargs = CollectName(rq.request, rq.kwargs, names[rq.i]),
                        !.i = @ + 1]
    /\ UNCHANGED <<engineVars, mt, ft, bc, ls, wk, cl, mo>>

\* the loop is exhausted: its else clause runs, since the loop was not left
\* by a break, and returns the message; the call of the engine after the
\* loop is never reached
APElse ==
    /\ rq.pc = "loop"
    /\ rq.i > Len(names)
    /\ rq' = [rq EXCEPT !.pc = "done", !.response = [kind |-> "message", body |-> ErrorMessage]]
    /\ UNCHANGED <<engineVars, mt, ft, bc, ls, wk, cl, mo>>

APNext == APOptions \/ APStart \/ APName \/ APElse

SpecApi == APInit /\ [][APNext]_vars

------------------------------------------------------------------------------
(* Further properties of the transforms and of the engine *)

\* one sequence of calc_cum_probs is ordered, free of duplicate keys and
\* cumulative
CumOrdered(lst) ==
    /\ \A i \in 1..(Len(lst) - 1) : lst[i][1][2] >= lst[i + 1][1][2]
    /\ \A i, j \in 1..Len(lst) : lst[i][1] = lst[j][1] => i = j
    /\ \A i \in 1..(Len(lst) - 1) : PLeq(lst[i][2], lst[i + 1][2])

\* C11: in the attack and in the defense sequence of calc_cum_probs the
\* entries come in non-increasing order of the remaining troops, no key
\* (territory, remaining, on territory) occurs twice, and the cumulative
\* probability never decreases along the sequence.
C11_CumProbsOrdered ==
    pc = "done" => (CumOrdered(cum.atk) /\ CumOrdered(cum.dfn))

\* sequences that the sort had to reorder: the grouped keys of the
\* distribution are not in descending order of the remaining troops
C11_Witness ==
    /\ pc = "done"
    /\ Len(cum.atk) >= 3
    /\ cum.atk[1][1][2] > cum.atk[Len(cum.atk)][1][2]
    /\ DictKeys(RemProbs(dist, cfg.d.val, 0, <<>>)) # DictKeys(cum.atk)
    /\ DictKeys(RemProbs(dist, cfg.d.val, 1, <<>>)) # DictKeys(cum.dfn)

\* C12: for 5 attack troops against [3, 2] defenders, six-sided dice on both
\* territories and stop = 1, calc_battle_probs returns exactly 8 outcomes:
\* 8 distinct absorbing states, each with a non-zero probability.
C12_FixtureHasEightOutcomes ==
    (pc \in {"dist", "win", "done"} /\ cfg = TestParams) =>
        /\ Len(dist) = 8
        /\ Cardinality({dist[i][1] : i \in 1..Len(dist)}) = 8
        /\ \A i \in 1..Len(dist) :
              /\ PLess(PZero, dist[i][2])
              /\ Absorbing(cfg.stop, dist[i][1][2], dist[i][1][3])

\* the distribution of the fixture has been computed: it has outcomes on both
\* territories, with and without a conquest of the last one
C12_Witness ==
    /\ pc = "dist"
    /\ cfg = TestParams
    /\ \E i, j \in 1..Len(dist) : dist[i][1][1] = 0 /\ dist[j][1][1] = 1
    /\ \E i, j \in 1..Len(dist) : dist[i][1][3] = 0 /\ dist[j][1][3] > 0

\* two dicts with the same keys and the same values, in any order
SameDict(x, y) ==
    /\ Len(x) = Len(y)
    /\ {x[i] : i \in 1..Len(x)} = {y[i] : i \in 1..Len(y)}
    /\ Cardinality({x[i][1] : i \in 1..Len(x)}) = Len(x)

\* C13: the literal table returned for six-sided dice equals, for each of the
\* six pairings, what the enumeration of all roll tuples gives with six-sided
\* dice; its entry (3, 2), (0, 2) is 2890 / 7776.
C13_LiteralEqualsEnumeration ==
    (ls.pc = "done" /\ ls.a_sides = 6 /\ ls.d_sides = 6) =>
        /\ Len(ls.loss_probs) = Len(Pairings)
        /\ \A i \in 1..Len(ls.loss_probs) :
              SameDict(ls.loss_probs[i][2],
                       LossProbsRolls(6, 6, ls.loss_probs[i][1][1],
                                      ls.loss_probs[i][1][2]))
        /\ \E i \in 1..Len(ls.loss_probs) :
              /\ ls.loss_probs[i][1] = <<3, 2>>
              /\ DictGet(ls.loss_probs[i][2], <<0, 2>>) = PFrac(2890, 7776)

\* calc_loss_probs(6, 6) has returned the literal table
C13_Witness ==
    /\ ls.pc = "done" /\ ls.a_sides = 6 /\ ls.d_sides = 6
    /\ ls.todo = <<>>
    /\ \A i \in 1..Len(Pairings) : ls.loss_probs[i][2] = loss_probs_6_6[Pairings[i]]

\* the k-th largest value of a sequence, by counting
KthLargest(vals, k) ==
    CHOOSE v \in {vals[j] : j \in 1..Len(vals)} :
        /\ Cardinality({j \in 1..Len(vals) : vals[j] > v}) < k
        /\ Cardinality({j \in 1..Len(vals) : vals[j] >= v}) >= k

\* the number of top pairs of a roll tuple in which attack <= defense
PairsLost(c) ==
    Cardinality({k \in 1..Min(Len(c.a), Len(c.d)) :
                    KthLargest(c.a, k) <= KthLargest(c.d, k)})

\* the entry of one pairing gives each loss pair the fraction of roll tuples
\* with that many lost pairs, has no other keys, and sums to 1
LossEntryIsFraction(a_sides, d_sides, entry) ==
    \E combos \in {Combos(a_sides, d_sides, entry[1][1], entry[1][2])} :
    \E total \in {Min(entry[1][1], entry[1][2])} :
        /\ \A al \in 0..total :
              \E cnt \in {Cardinality({c \in combos : PairsLost(c) = al})} :
                 IF cnt = 0 THEN ~DictHas(entry[2], <<al, total - al>>)
                 ELSE /\ DictHas(entry[2], <<al, total - al>>)
                      /\ DictGet(entry[2], <<al, total - al>>)
                             = PFrac(cnt, Cardinality(combos))
        /\ \A i \in 1..Len(entry[2]) :
              /\ entry[2][i][1][1] \in 0..total
              /\ entry[2][i][1][2] = total - entry[2][i][1][1]
              /\ \A j \in 1..Len(entry[2]) : entry[2][i][1] = entry[2][j][1] => i = j
        /\ PSum(DictValues(entry[2])) = POne

RECURSIVE SimTerminals(_, _, _)
\* the states simulate_one can return from state s, over all dice results
SimTerminals(f, stop, s) ==
    IF ~(s[2] > stop /\ s[3] > 0) THEN {s}
    ELSE UNION {SimTerminals(f, stop,
                    SimIter(f.d_list, stop, s[1], s[2], s[3],
                            LossProbsAt(f, s[1], s[2], s[3])[i][1][1],
                            LossProbsAt(f, s[1], s[2], s[3])[i][1][2])) :
                i \in 1..Len(LossProbsAt(f, s[1], s[2], s[3]))}

\* the outcome keys of the exact distribution of the configuration of the walk
ExactKeys ==
    With(calc_battle_probs(wk.args.a, wk.args.d, wk.args.a_sides,
                           wk.args.d_sides, wk.args.stop),
         LAMBDA r : {r.dist[i][1] : i \in 1..Len(r.dist)})

\* C14: the state simulate_one returns is always an outcome key of the exact
\* distribution of the same configuration, and the set of the states it can
\* return over all dice results equals the set of those keys.
C14_SimulatorTerminalsAreExactKeys ==
    /\ (wk.mode = "sim" /\ wk.pc = "done") => <<wk.t, wk.a, wk.d>> \in ExactKeys
    /\ (wk.mode = "sim" /\ wk.pc = "run" /\ Len(wk.path) = 1) =>
          SimTerminals(wk.f, wk.args.stop, wk.path[1]) = ExactKeys

\* simulate_one has returned after conquering a territory and rolling on
C14_Witness ==
    /\ wk.mode = "sim" /\ wk.pc = "done"
    /\ wk.t = 1
    /\ Len(wk.path) >= 4
    /\ Cardinality(ExactKeys) >= 4

\* C16: every transition of the engine from a transient state (t, a, d) under
\* a roll (a_loss, d_loss) goes to (t + 1, a - a_loss - 1, d_list[t + 1]) exactly
\* when d - d_loss = 0, a - a_loss > stop and t < N - 1, and to
\* (t, a - a_loss, d - d_loss) otherwise; the territory index never decreases,
\* rises by exactly 1 and only on a roll that eliminates the last defenders,
\* and each advance leaves exactly one attack troop behind.
C16_EngineTransitionRule ==
    [][(wk.mode = "engine" /\ wk.pc = "run" /\ wk'.pc = "run") =>
         LET a_loss == wk'.roll[1]
             d_loss == wk'.roll[2]
             advance == /\ wk.d - d_loss = 0
                        /\ wk.a - a_loss > wk.args.stop
                        /\ wk.t < Len(wk.f.d_list) - 1
         IN /\ ~Absorbing(wk.args.stop, wk.a, wk.d)
            /\ advance => /\ wk'.t = wk.t + 1
                          /\ wk'.a = wk.a - a_loss - 1
                          /\ wk'.d = wk.f.d_list[wk.t + 2]
            /\ ~advance => /\ wk'.t = wk.t
                           /\ wk'.a = wk.a - a_loss
                           /\ wk'.d = wk.d - d_loss
            /\ wk'.t \in {wk.t, wk.t + 1}
            /\ wk'.t = wk.t + 1 => (wk.d - d_loss = 0 /\ wk'.a = wk.a - a_loss - 1)
      ]_vars

\* the engine has moved on to the second territory and rolled there
C16_Witness ==
    /\ wk.mode = "engine" /\ wk.pc = "run"
    /\ wk.t = 1
    /\ Len(wk.path) >= 3
    /\ wk.path[Len(wk.path) - 1][1] = 1
    /\ \E i \in 1..(Len(wk.path) - 1) :
          wk.path[i][1] = 0 /\ wk.path[i + 1][1] = 1

\* a + t + d + sum(d_list[t+1:]) of the current state of the walk
Pool(w) == w.a + w.t + w.d + SeqSum(SubSeq(w.f.d_list, w.t + 2, Len(w.f.d_list)))

\* C17: the recursion of the engine terminates: every transition strictly
\* decreases a + t + d + sum(d_list[t+1:]), no state occurs twice on a path,
\* a path has at most a + sum(d_list) steps, and every path from
\* (0, a, d_list[0]) reaches an absorbing state.
C17_RecursionTerminates ==
    /\ []((wk.mode = "engine" /\ wk.pc \in {"run", "done"}) =>
            /\ \A i, j \in 1..Len(wk.path) : wk.path[i] = wk.path[j] => i = j
            /\ Len(wk.path) - 1 <= wk.args.a + SeqSum(wk.f.d_list)
            /\ wk.path[1] = <<0, wk.args.a, wk.f.d_list[1]>>)
    /\ [][(wk.mode = "engine" /\ wk.pc = "run" /\ wk'.pc = "run") =>
            Pool(wk') < Pool(wk)]_vars
    /\ (wk.mode = "engine" /\ wk.pc = "start")
          ~> (wk.pc = "done" /\ Absorbing(wk.args.stop, wk.a, wk.d))

\* the descent has reached an absorbing state after several rolls
C17_Witness ==
    /\ wk.mode = "engine" /\ wk.pc = "done"
    /\ Len(wk.path) >= 5
    /\ Absorbing(wk.args.stop, wk.a, wk.d)

\* C15: find_min_troops rejects every target <= 0 and every target >= 1
\* before the first evaluation of the engine and before battle_args['a'] is
\* assigned.
C15_TargetRejectedUpFront ==
    (mt.pc # "start" /\ (mt.target <= 0 \/ mt.target >= ProbDen)) =>
        /\ mt.pc = "error"
        /\ mt.evals = <<>>
        /\ mt.battle_a = 0
        /\ mt.lo = 0 /\ mt.hi = 0

\* a call with a target above 1 has failed
C15_Witness ==
    /\ mt.pc = "error"
    /\ mt.target > ProbDen
    /\ mt.evals = <<>>

\* the engine's win probabilities of a list of configurations
WinProbsOf(arg_list) == [i \in 1..Len(arg_list) |-> WinLast(arg_list[i])]

\* the cached list equals the engine's win probabilities of the current
\* configurations, and the returned p_max and p_any are those of args_new
CacheIsCurrent ==
    /\ ((ft.pc = "loop" /\ ft.placed >= 1) \/ ft.pc = "done") =>
          ft.p_list = WinProbsOf(ft.arg_list)
    /\ ft.pc = "done" =>
          \E w \in {WinProbsOf(ft.result.args_new)} :
              /\ ft.result.p_max = MaxProb(w)
              /\ ft.result.p_any = calc_any_win_prob(w)

\* C20: after every committed placement of fortify and at return, the cached
\* win probability of every configuration equals the engine's probability of
\* conquering all territories of that configuration with its current defense,
\* and the returned p_max and p_any are the maximum and 1 - prod(1 - p_i) of
\* the win probabilities of the returned args_new.
C20_CachedProbsAreCurrent == CacheIsCurrent

\* C20, for argument lists whose dictionaries hold distinct `d` lists: the
\* cache is current after every placement and at return.
C20_CurrentWithoutSharing ==
    (\A i, j \in 1..Len(ft.d_obj) : ft.d_obj[i] = ft.d_obj[j] => i = j)
        => CacheIsCurrent

\* a return after a placement with all caches current
C20_Witness ==
    /\ ft.pc = "done"
    /\ ft.placed >= 1
    /\ Len(ft.arg_list) = 2
    /\ ft.d_obj = <<1, 2>>
    /\ ft.p_list = WinProbsOf(ft.result.args_new)

\* C20: a return with a cached probability that is not the win probability of
\* the returned configuration, whose `d` list was changed through the other one
C20_StaleCache ==
    /\ ft.pc = "done"
    /\ ft.d_obj = <<1, 1>>
    /\ \E i \in 1..Len(ft.p_list) : ft.p_list[i] # WinLast(ft.result.args_new[i])
    /\ ft.result.p_max # MaxProb(WinProbsOf(ft.result.args_new))

\* C18: in a sequence of calls the distribution returned for a configuration
\* is the one returned when it is evaluated first: a call after one with the
\* same troop counts and other dice returns the distribution of its own dice,
\* and two calls with the same configuration return equal distributions.
C18_DistributionDependsOnConfigOnly ==
    /\ \A k \in 1..Len(cl.results) :
          cl.results[k] = calc_battle_probs(cl.calls[k].a, cl.calls[k].d,
                                            cl.calls[k].a_sides, cl.calls[k].d_sides,
                                            cl.calls[k].stop).dist
    /\ \A j, k \in 1..Len(cl.results) :
          cl.calls[j] = cl.calls[k] => cl.results[j] = cl.results[k]

\* two calls with the same troop counts, other dice and other distributions,
\* the second with loss tables the first call had already looked up
C18_Witness ==
    /\ cl.pc = "done"
    /\ cl.calls[1].a = cl.calls[2].a /\ cl.calls[1].d = cl.calls[2].d
    /\ cl.calls[1].a_sides # cl.calls[2].a_sides
    /\ Len(cl.calls[1].d.val) = 2
    /\ cl.results[1] # cl.results[2]
    /\ DictKeys(cl.results[1]) = DictKeys(cl.results[2])
    /\ Cardinality(cl.loss_cached) >= 2

\* C21: for a fixed defense, dice and stop threshold, the probability of
\* conquering all territories that the engine returns for a + 1 attack troops
\* is at least the one it returns for a attack troops.
C21_WinProbNonDecreasing ==
    (mo.pc = "run" /\ mo.a > 2) => ~FLess(mo.p, mo.prev)

\* C21: the engine returns, for one more attack troop, a smaller probability
C21_Decrease ==
    /\ mo.pc = "run" /\ mo.a > 2
    /\ FLess(mo.p, mo.prev)

\* C21 in exact arithmetic: the probability of conquering all territories
\* does not decrease with one more attack troop
C21_ExactNonDecreasing ==
    pc = "win" => PLeq(win[Len(win)], WinLast([cfg EXCEPT !.a = @ + 1]))

C21_ExactWitness ==
    /\ pc = "win"
    /\ PLess(win[Len(win)], WinLast([cfg EXCEPT !.a = @ + 1]))

\* the request supplies `name` in its query arguments or in its JSON body
Supplies(request, name) == DictHas(request.args, name) \/ DictHas(request.json, name)

\* the value the request gives for `name`, the query arguments first, or the
\* engine's default
ParamOf(request, name, default) ==
    IF DictHas(request.args, name) THEN DictGet(request.args, name).val
    ELSE IF DictHas(request.json, name) THEN DictGet(request.json, name).val
    ELSE default

\* the last win probability of the engine for the parameters of the request
WinOfRequest(request) ==
    WinLast([a |-> ParamOf(request, "a", 0), d |-> AsList(ParamOf(request, "d", <<>>)),
             a_sides |-> AsInt(ParamOf(request, "a_sides", 6)),
             d_sides |-> AsInt(ParamOf(request, "d_sides", 6)),
             stop |-> ParamOf(request, "stop", 1)])

\* C22: a request other than OPTIONS that supplies a and d, in its query
\* arguments or its JSON body, is answered with the last win probability of
\* the engine for the supplied parameters, not with the error message.
C22_ReturnsWinProbability ==
    (/\ rq.pc = "done"
     /\ rq.request.method # "OPTIONS"
     /\ Supplies(rq.request, "a") /\ Supplies(rq.request, "d"))
        => /\ rq.response.kind = "value"
           /\ rq.response.body = WinOfRequest(rq.request)

\* C22: every request other than OPTIONS is answered with the error message,
\* whatever it supplies; the parameters were collected into kwargs
C22_AlwaysErrorMessage ==
    (rq.pc = "done" /\ rq.request.method # "OPTIONS")
        => /\ rq.response = [kind |-> "message", body |-> ErrorMessage]
           /\ \A i \in 1..Len(names) :
                 Supplies(rq.request, names[i]) <=> DictHas(rq.kwargs, names[i])

\* a POST request with all five parameters in its JSON body got the message
C22_MessageForCompleteRequest ==
    /\ rq.pc = "done"
    /\ rq.request.method = "POST"
    /\ rq.request.args = <<>>
    /\ \A i \in 1..Len(names) : DictHas(rq.request.json, names[i])
    /\ Len(rq.kwargs) = Len(names)
    /\ rq.response.kind = "message"

RECURSIVE LossSum(_, _)
\* the losses of one side accumulated over the rolls of a path
LossSum(rolls, side) ==
    IF rolls = <<>> THEN 0
    ELSE rolls[1][side] + LossSum(Tail(rolls), side)

\* C23: in every state (t, a, d) the engine reaches from (0, a, d_list[0]),
\* a + t is the attack force minus the attack losses of the path and
\* d + sum(d_list[t+1:]) is the total defense minus the defense losses of the
\* path, so calc_remaining_troops gives the surviving troops of both players.
C23_TroopConservation ==
    (wk.mode = "engine" /\ wk.pc \in {"run", "done"}) =>
        /\ wk.a + wk.t = wk.args.a - LossSum(wk.rolls, 1)
        /\ wk.d + SeqSum(SubSeq(wk.f.d_list, wk.t + 2, Len(wk.f.d_list)))
              = SeqSum(wk.f.d_list) - LossSum(wk.rolls, 2)
        /\ calc_remaining_troops(wk.t, wk.a, wk.d, wk.f.d_list)
              = <<wk.args.a - LossSum(wk.rolls, 1),
                  SeqSum(wk.f.d_list) - LossSum(wk.rolls, 2)>>

\* an outcome on the second territory after losses of both players, with
\* territories of different defense
C23_Witness ==
    /\ wk.mode = "engine" /\ wk.pc = "done"
    /\ wk.t = 1
    /\ wk.f.d_list[1] # wk.f.d_list[2]
    /\ LossSum(wk.rolls, 1) > 0
    /\ LossSum(wk.rolls, 2) > wk.f.d_list[1]

\* C24: in the distribution of the engine an outcome with d = 0 lies on the
\* last territory and has a > stop, and an outcome with a <= stop has
\* 1 <= d <= d_list[t]; no roll from a visited transient state removes the
\* last defenders and leaves the attack at or below stop.
C24_OutcomeShape ==
    pc \in {"dist", "win", "cum"} =>
        LET f == fix_risk_args(cfg.a, cfg.d, cfg.a_sides, cfg.d_sides, cfg.stop)
        IN /\ \A i \in 1..Len(dist) :
                LET t == dist[i][1][1]
                    a == dist[i][1][2]
                    d == dist[i][1][3]
                IN /\ d = 0 => (t = Len(f.d_list) - 1 /\ a > cfg.stop)
                   /\ a <= cfg.stop => (1 <= d /\ d <= f.d_list[t + 1])
           /\ \A s \in DOMAIN memo :
                ~Absorbing(cfg.stop, s[2], s[3]) =>
                    \A j \in 1..Len(LossProbsAt(f, s[1], s[2], s[3])) :
                        LET roll == LossProbsAt(f, s[1], s[2], s[3])[j][1]
                        IN ~(s[3] - roll[2] = 0 /\ s[2] - roll[1] <= cfg.stop)

\* a distribution over two territories with an outcome without defenders and
\* an outcome stopped at the threshold on the first territory
C24_Witness ==
    /\ pc = "dist"
    /\ Len(cfg.d.val) = 2
    /\ \E i \in 1..Len(dist) : dist[i][1][3] = 0
    /\ \E i \in 1..Len(dist) : dist[i][1][1] = 0 /\ dist[i][1][2] <= cfg.stop
    /\ \E s \in DOMAIN memo : s[1] = 1 /\ ~Absorbing(cfg.stop, s[2], s[3])

\* C25: every state of the engine and of the simulator for a valid
\* configuration has a >= 1, 0 <= d <= d_list[t] and 0 <= t < N; in a
\* transient state the pairing (min(3, a - 1), min(2, d)) is a key of the loss
\* table, the attack rolls at most a - 1 dice and the defense at most d, and
\* no roll of the table removes more troops than the dice rolled.
C25_StatesAndRollsInRange ==
    wk.pc \in {"run", "done"} =>
        /\ wk.a >= 1
        /\ 0 <= wk.t /\ wk.t < Len(wk.f.d_list)
        /\ 0 <= wk.d /\ wk.d <= wk.f.d_list[wk.t + 1]
        /\ (wk.pc = "run" /\ ~Absorbing(wk.args.stop, wk.a, wk.d)) =>
              LET key == <<Min(3, wk.a - 1), Min(2, wk.d)>>
                  table == LossCache[<<wk.f.a_sides_list[wk.t + 1],
                                       wk.f.d_sides_list[wk.t + 1]>>]
                  rolls == LossProbsAt(wk.f, wk.t, wk.a, wk.d)
              IN /\ key \in (1..3) \X (1..2)
                 /\ key \in DOMAIN table
                 /\ key[1] <= wk.a - 1 /\ key[2] <= wk.d
                 /\ rolls # <<>>
                 /\ \A j \in 1..Len(rolls) :
                       /\ 0 <= rolls[j][1][1] /\ rolls[j][1][1] <= key[1]
                       /\ 0 <= rolls[j][1][2] /\ rolls[j][1][2] <= key[2]
                       /\ rolls[j][1][1] < wk.a /\ rolls[j][1][2] <= wk.d

\* a transient state in which the attack has one die and the defense two
C25_Witness ==
    /\ wk.pc = "run" /\ wk.mode = "engine"
    /\ wk.a = 2 /\ wk.d = 2 /\ wk.t = 1
    /\ ~Absorbing(wk.args.stop, wk.a, wk.d)
    /\ Len(wk.path) > 1

RECURSIVE AllocSum(_)
\* the sum of all entries of an allocation
AllocSum(allocs) ==
    IF allocs = <<>> THEN 0
    ELSE SeqSum(allocs[1]) + AllocSum(Tail(allocs))

\* the allocation returned has one entry per configuration and territory, no
\* entry is negative, the entries sum to d_troops and each is the difference
\* of the new and the old defense
AllocationAccounts(f) ==
    LET allocs == f.result.allocation
    IN /\ Len(allocs) = Len(f.caller_arg_list)
       /\ \A i \in 1..Len(allocs) :
             /\ Len(allocs[i]) = Len(f.caller_arg_list[i].d.val)
             /\ \A t \in 1..Len(allocs[i]) :
                   /\ allocs[i][t] >= 0
                   /\ allocs[i][t] = f.result.args_new[i].d.val[t]
                                        - f.result.args_old[i].d.val[t]
       /\ AllocSum(allocs) = f.d_troops

\* no two configurations of the call hold the same `d` list
NoSharedLists(f) == \A i, j \in 1..Len(f.d_obj) : f.d_obj[i] = f.d_obj[j] => i = j

\* C26: fortify commits one defensive troop per iteration: the allocation it
\* returns has one entry per configuration and territory, every entry is
\* >= 0, the entries sum to d_troops and each entry is the new minus the old
\* defense of its territory.
C26_AllocationSumsToTroops == ft.pc = "done" => AllocationAccounts(ft)

\* C26 for calls whose configurations hold distinct `d` lists
C26_AccountsWithoutSharing ==
    (ft.pc = "done" /\ NoSharedLists(ft)) => AllocationAccounts(ft)

\* two troops placed on two configurations with distinct lists
C26_Witness ==
    /\ ft.pc = "done" /\ NoSharedLists(ft)
    /\ ft.d_troops = 2
    /\ Len(ft.result.allocation) = 2
    /\ AllocSum(ft.result.allocation) = 2
    /\ SeqSum(ft.result.allocation[1]) = 1

\* one troop placed and reported once for each configuration sharing the list
C26_CountedTwice ==
    /\ ft.pc = "done" /\ ~NoSharedLists(ft)
    /\ ft.d_troops = 1
    /\ AllocSum(ft.result.allocation) = 2

\* args_new is the input with other defense-troop counts only
OnlyDefenseDiffers(args_new, given) ==
    /\ Len(args_new) = Len(given)
    /\ \A i \in 1..Len(given) :
          /\ [args_new[i] EXCEPT !.d = given[i].d] = given[i]
          /\ args_new[i].d.scalar = given[i].d.scalar
          /\ Len(args_new[i].d.val) = Len(given[i].d.val)

\* C27: fortify leaves the list of the caller unchanged; the args_old it
\* returns equals the input and args_new differs from the input only in the
\* defense-troop counts.
C27_CallerListUnchanged ==
    /\ [][ft'.caller_arg_list = ft.caller_arg_list]_vars
    /\ [](ft.pc = "done" =>
            /\ ft.result.args_old = ft.caller_arg_list
            /\ OnlyDefenseDiffers(ft.result.args_new, ft.caller_arg_list))

\* a call that placed two troops returned lists that differ from the input
C27_Witness ==
    /\ ft.pc = "done"
    /\ ft.d_troops = 2 /\ ft.placed = 2
    /\ ft.result.args_new # ft.caller_arg_list
    /\ ft.result.args_old = ft.caller_arg_list
    /\ Len(ft.caller_arg_list) = 2

\* the doubling would evaluate a troop count above the tabulated ones
BeyondBound(m) == m.pc = "double" /\ m.p < m.target /\ m.hi * 2 > MaxTroops

\* C28: for every target in (0, 1) find_min_troops terminates, its doubling
\* phase and its binary search being finite, and returns a result.
C28_SearchReturns ==
    (mt.pc = "start" /\ 0 < mt.target /\ mt.target < ProbDen)
        ~> (mt.pc = "done" \/ BeyondBound(mt))

\* C28: every call comes to an end, by a return or by a failed assertion of
\* the engine, as far as the doubling is followed
C28_ReturnsOrRaises ==
    (mt.pc = "start") ~> (mt.pc \in {"done", "error"} \/ BeyondBound(mt))

\* a call with a valid target has ended without a result
C28_EndedWithoutResult ==
    /\ mt.pc = "error"
    /\ 0 < mt.target /\ mt.target < ProbDen
    /\ Len(mt.evals) > 1

\* C29: for every target in (0, 1) and every hi_start >= 2, every troop count
\* at which find_min_troops evaluates the engine is above 1, so the search
\* does not fail on the engine's check of its arguments.
C29_EvaluationsAboveOne ==
    (0 < mt.target /\ mt.target < ProbDen) =>
        /\ \A i \in 1..Len(mt.evals) : mt.evals[i] > 1
        /\ mt.pc # "error"

\* the binary search has evaluated the engine with one attack troop
C29_EvaluatesOneTroop ==
    /\ mt.pc = "error"
    /\ 0 < mt.target /\ mt.target < ProbDen
    /\ mt.lo = 1 /\ mt.mid = 1
    /\ mt.evals[Len(mt.evals)] = 1
    /\ \A i \in 1..(Len(mt.evals) - 1) : mt.evals[i] > 1

\* C29: the engine's check fails only for one attack troop, at the midpoint of
\* lo = 1 and hi <= 2
C29_FailsOnlyAtOne ==
    mt.pc = "error" /\ 0 < mt.target /\ mt.target < ProbDen =>
        /\ mt.evals[Len(mt.evals)] = 1
        /\ mt.mid = 1 /\ mt.lo = 1 /\ mt.hi \in {1, 2}

RECURSIVE AtLeastProb(_, _, _, _)
\* the probability that the remaining troops of a player (index 0 the attack,
\* 1 the defense) are at least n: the sum over the outcomes of the distribution
AtLeastProb(battle_probs, d_list, index, n) ==
    IF battle_probs = <<>> THEN PZero
    ELSE LET key == battle_probs[1][1]
             rems == calc_remaining_troops(key[1], key[2], key[3], d_list)
             rest == AtLeastProb(Tail(battle_probs), d_list, index, n)
         IN IF rems[index + 1] >= n THEN PAdd(battle_probs[1][2], rest) ELSE rest

\* every entry of one sequence of calc_cum_probs carries the probability of
\* at least its remaining troops
CumIsAtLeast(lst, battle_probs, d_list, index) ==
    \A i \in 1..Len(lst) :
        LET q == AtLeastProb(battle_probs, d_list, index, lst[i][1][2])
        IN PLeq(lst[i][2], q) /\ PLeq(q, lst[i][2])

\* C30: for both players the cumulative probability of each entry of
\* calc_cum_probs is the probability that the player's remaining troops are
\* at least the remaining troops of the entry, also for stop > 1.
C30_CumIsAtLeastProb ==
    pc = "done" => /\ CumIsAtLeast(cum.atk, dist, cfg.d.val, 0)
                   /\ CumIsAtLeast(cum.dfn, dist, cfg.d.val, 1)

\* C30 for the defense, and for the attack when stop = 1
C30_AtLeastWithoutTies ==
    pc = "done" => /\ cfg.stop = 1 => CumIsAtLeast(cum.atk, dist, cfg.d.val, 0)
                   /\ CumIsAtLeast(cum.dfn, dist, cfg.d.val, 1)

\* C30: an entry carries the probability of at least its remaining troops
\* unless another entry of the sequence has the same remaining troops
C30_AtLeastUnlessTied ==
    pc = "done" =>
        \A i \in 1..Len(cum.atk) :
            (\A j \in (i + 1)..Len(cum.atk) : cum.atk[j][1][2] # cum.atk[i][1][2])
                => LET q == AtLeastProb(dist, cfg.d.val, 0, cum.atk[i][1][2])
                   IN PLeq(cum.atk[i][2], q) /\ PLeq(q, cum.atk[i][2])

\* two entries of the attack sequence, on different territories, with the same
\* remaining troops: the first does not count the outcomes of the second
C30_TiedEntries ==
    /\ pc = "done" /\ cfg.stop = 2
    /\ \E i \in 1..(Len(cum.atk) - 1) :
          /\ cum.atk[i][1][2] = cum.atk[i + 1][1][2]
          /\ cum.atk[i][1][1] # cum.atk[i + 1][1][1]
          /\ PLess(cum.atk[i][2], AtLeastProb(dist, cfg.d.val, 0, cum.atk[i][1][2]))

\* a done call with stop = 1 over two territories and four or more entries
C30_Witness ==
    /\ pc = "done" /\ cfg.stop = 1
    /\ Len(cfg.d.val) = 2
    /\ Len(cum.atk) >= 4 /\ Len(cum.dfn) >= 3

=============================================================================
